---------------------------- MODULE Spec2Model ----------------------------
(***************************************************************************)
(* A model of the hierarchical filtering and layer-explosion engine of the *)
(* network visualization (src/js/nv.js): the nodes tree, the ownership     *)
(* labelled filter passes over nodes and links, and the crosslinks built   *)
(* when a node is exploded.                                                *)
(*                                                                         *)
(* Node and link indices are those of nv.nodesList / nv.linksList          *)
(* (0-based, as in the source).  Strings that the code splits or matches   *)
(* (node names, slider input, patterns) are sequences of one-character     *)
(* strings.                                                                *)
(***************************************************************************)
EXTENDS Integers, Sequences, FiniteSets, TLC

(***************************************************************************)
(* Bounds of the model.                                                    *)
(***************************************************************************)
\* In the whole application (Spec) nodes are exploded while at most
\* MaxCrossPairs crosslink pairs exist ...
MaxCrossPairs == 0
\* ... and in the explosion engine alone (SpecExplode) while at most
\* MaxCrossPairsDeep exist.
MaxCrossPairsDeep == 6

\* ... and in the specification that leaves the order of equal elements of
\* the sorted snapshot to the engine.
MaxCrossPairsSort == 2

(***************************************************************************)
(* Sentinels.                                                              *)
(***************************************************************************)
\* The index of the tree root, whose obj.index is undefined.
NoIndex == -1
\* The value of a lookup of an absent key.
Undefined == -2
\* filteredBy of an element no filter owns.
Null == "null"

(***************************************************************************)
(* The static input: nodes_list, links_list and nodes_tree.                *)
(*   metro A: pop A_p (routers A_p_x, A_p_y), pop A_q (router A_q_x)       *)
(*   metro B: pop B_p (router B_p_y)                                       *)
(***************************************************************************)
nodes_list ==
    << [nodeName |-> <<"A">>,                     type |-> "metro"],
       [nodeName |-> <<"B">>,                     type |-> "metro"],
       [nodeName |-> <<"A","_","p">>,             type |-> "pop"],
       [nodeName |-> <<"A","_","q">>,             type |-> "pop"],
       [nodeName |-> <<"B","_","p">>,             type |-> "pop"],
       [nodeName |-> <<"A","_","p","_","x">>,     type |-> "router"],
       [nodeName |-> <<"A","_","p","_","y">>,     type |-> "router"],
       [nodeName |-> <<"A","_","q","_","x">>,     type |-> "router"],
       [nodeName |-> <<"B","_","p","_","y">>,     type |-> "router"] >>

\* nv.numNodes
numNodes == Len(nodes_list)

Nodes == 0 .. (numNodes - 1)

NodeName(i) == nodes_list[i + 1].nodeName

NodeType(i) == nodes_list[i + 1].type

\* The children of each object of nodes_tree, in the order the input lists
\* them; the first entry is the root ("master"), which has no index.
nodes_tree ==
    [i \in {NoIndex} \cup Nodes |->
        CASE i = NoIndex -> <<0, 1>>
          [] i = 0 -> <<2, 3>>
          [] i = 1 -> <<4>>
          [] i = 2 -> <<5, 6>>
          [] i = 3 -> <<7>>
          [] i = 4 -> <<8>>
          [] OTHER -> << >>]

\* Whether the object of nodes_tree has a 'children' property.
ObjHasChildren(i) == Len(nodes_tree[i]) > 0

\* links_list: one record per direction.  Only router links carry the
\* measured attributes.
BaseLink(s, t, ty, u, c) ==
    [source |-> s, target |-> t, type |-> ty, filtered |-> FALSE,
     filteredBy |-> Null, utilization |-> u, capacity |-> c]

links_list ==
    << BaseLink(0, 1, "metro", -1, -1), BaseLink(1, 0, "metro", -1, -1),
       BaseLink(2, 3, "pop", -1, -1),   BaseLink(3, 2, "pop", -1, -1),
       BaseLink(3, 4, "pop", -1, -1),   BaseLink(4, 3, "pop", -1, -1),
       BaseLink(5, 7, "router", 0, 1),  BaseLink(7, 5, "router", 0, 1),
       BaseLink(6, 7, "router", 1, 0),  BaseLink(7, 6, "router", 1, 0),
       BaseLink(7, 8, "router", 1, 1),  BaseLink(8, 7, "router", 1, 1) >>

\* The neighbors map of each record of nodes_list: adjacent node index ->
\* index of the link record from this node to it.
InitNeighbors ==
    [a \in Nodes |->
        [b \in {links_list[k].target :
                  k \in {j \in 1 .. Len(links_list) : links_list[j].source = a}}
           |-> (CHOOSE k \in 1 .. Len(links_list) :
                    links_list[k].source = a /\ links_list[k].target = b) - 1]]

(***************************************************************************)
(* nv.layerOrder                                                           *)
(***************************************************************************)
layerOrder ==
    [t \in {"router", "router_pop", "pop_router", "pop", "router_metro",
            "metro_router", "pop_metro", "metro_pop", "metro"} |->
        CASE t = "router" -> 0
          [] t \in {"router_pop", "pop_router"} -> 1
          [] t \in {"pop", "router_metro", "metro_router"} -> 2
          [] t \in {"pop_metro", "metro_pop"} -> 3
          [] OTHER -> 4]

Layers == {"router", "pop", "metro"}

(***************************************************************************)
(* String helpers: String.prototype.split and RegExp.prototype.test on the *)
(* literal patterns the model uses.                                        *)
(***************************************************************************)
RECURSIVE SplitFrom(_, _, _, _)
SplitFrom(s, sep, i, cur) ==
    IF i > Len(s) THEN << cur >>
    ELSE IF s[i] = sep THEN << cur >> \o SplitFrom(s, sep, i + 1, << >>)
    ELSE SplitFrom(s, sep, i + 1, Append(cur, s[i]))

\* s.split(sep)
Split(s, sep) == SplitFrom(s, sep, 1, << >>)

\* The last element of a non-empty array: array.pop()
Last(a) == a[Len(a)]


Digits == <<"0", "1", "2", "3", "4", "5", "6", "7", "8", "9">>

RECURSIVE ToNumberFrom(_, _, _)
ToNumberFrom(s, i, acc) ==
    IF i > Len(s) THEN acc
    ELSE ToNumberFrom(s, i + 1,
             acc * Len(Digits)
               + (CHOOSE d \in 0 .. (Len(Digits) - 1) : Digits[d + 1] = s[i]))

\* The number a string of decimal digits is converted to when it is compared
\* with a number.
ToNumber(s) == ToNumberFrom(s, 1, 0)

\* The decimal text of a number.
RECURSIVE NumToStr(_)
NumToStr(n) ==
    IF n < Len(Digits) THEN << Digits[n + 1] >>
    ELSE NumToStr(n \div Len(Digits)) \o << Digits[(n % Len(Digits)) + 1] >>

\* new RegExp(pattern) throws on an unbalanced "(" (the only metacharacter
\* the model's patterns use).
PatternCompiles(p) == \A i \in 1 .. Len(p) : p[i] # "("

\* re.test(s) for a pattern of literal characters: p occurs in s.
RegExpTest(p, s) ==
    \E i \in 1 .. (Len(s) - Len(p) + 1) : SubSeq(s, i, i + Len(p) - 1) = p

(***************************************************************************)
(* Node and NodesTree: the static part.  A tree Node is named by the index *)
(* it carries; the root is NoIndex.                                        *)
(***************************************************************************)
\* Node.nodeName: the last segment of the object's name.
TreeNodeName(i) == Last(Split(NodeName(i), "_"))

\* Children in which every leaf is listed as its own child: a hierarchy
\* that is not a tree.
Children_Cyclic(i) == IF nodes_tree[i] = << >> THEN << i >> ELSE nodes_tree[i]

\* Node.children as the list of child indices in insertion order (empty for
\* children == null).
Children(i) == nodes_tree[i]

\* Node.parent
Parent(i) == CHOOSE p \in DOMAIN nodes_tree :
                 \E k \in 1 .. Len(nodes_tree[p]) : nodes_tree[p][k] = i

\* A hasChildren that answers true for a leaf too.
hasChildren_Always(i) == TRUE

\* Node.prototype.hasChildren
hasChildren(i) == ObjHasChildren(i)

\* node.children[key]; when two children share a key the later one stays.
ChildByKey(p, key) ==
    IF p = Undefined THEN Undefined
    ELSE LET hits == {k \in 1 .. Len(Children(p)) :
                         TreeNodeName(Children(p)[k]) = key}
         IN  IF hits = {} THEN Undefined
             ELSE Children(p)[CHOOSE k \in hits : \A j \in hits : j <= k]

\* A getNodeByName whose third case stops at the second level.
getNodeByName_TwoLevels(nodeName) ==
    LET address_array == Split(nodeName, "_")
    IN  CASE Len(address_array) = 1 ->
               ChildByKey(NoIndex, address_array[1])
          [] Len(address_array) \in {2, 3} ->
               ChildByKey(ChildByKey(NoIndex, address_array[1]),
                          address_array[2])
          [] OTHER -> Undefined

\* NodesTree.prototype.getNodeByName; a lookup through an absent segment
\* and a name of more than 3 segments both yield no node.
getNodeByName(nodeName) ==
    LET address_array == Split(nodeName, "_")
    IN  CASE Len(address_array) = 1 ->
               ChildByKey(NoIndex, address_array[1])
          [] Len(address_array) = 2 ->
               ChildByKey(ChildByKey(NoIndex, address_array[1]),
                          address_array[2])
          [] Len(address_array) = 3 ->
               ChildByKey(ChildByKey(ChildByKey(NoIndex, address_array[1]),
                                     address_array[2]),
                          address_array[3])
          [] OTHER -> Undefined

\* NodesTree.prototype.getNodeByIndex
getNodeByIndex(nodeIndex) == getNodeByName(NodeName(nodeIndex))

\* getNodeByName(elt.nodeName) for each element of nv.nodesList.
TreeNodeOf == [i \in Nodes |-> getNodeByName(NodeName(i))]

\* node.parent.index for each tree node.
ParentOf == [i \in Nodes |-> Parent(i)]

\* The indices of node.children (for...in over null or over the children
\* dictionary), for each tree node.
ChildIndices ==
    [i \in Nodes |-> {Children(i)[k] : k \in 1 .. Len(Children(i))}]


(***************************************************************************)
(* The filters nv.init registers, and the pop-layer pattern filter that    *)
(* the wider specification SpecLib registers through addNodeFilter.        *)
(***************************************************************************)
\* qFilter / rFilter construction: label = layer + '_' + attribute.
NewFilter(filterType, attribute, layer) ==
    [filterType |-> filterType, attribute |-> attribute, layer |-> layer,
     label |-> layer \o "_" \o attribute]

utilFilter == NewFilter("quant", "utilization", "router")

capFilter == NewFilter("quant", "capacity", "router")

routerNameFilter == NewFilter("regex", "nodeName", "router")

popNameFilter == NewFilter("regex", "nodeName", "pop")

metroNameFilter == NewFilter("regex", "nodeName", "metro")

LinkFilters == {utilFilter, capFilter}

NodeFilters == {routerNameFilter, popNameFilter}

LinkLabels == {f.label : f \in LinkFilters}

NodeLabels == {f.label : f \in NodeFilters \cup {metroNameFilter}}

\* The bounds the qFilters are constructed with.
InitLower == 0

InitUpper == 10

\* The slider texts "lower;upper" a range filter is driven with: the whole
\* range and the range that excludes every value above the lowest.
SliderInputs ==
    {NumToStr(InitLower) \o <<";">> \o NumToStr(InitUpper),
     NumToStr(InitLower) \o <<";">> \o NumToStr(InitLower)}

\* The texts typed into a pattern box: the empty pattern, a literal pattern
\* and one that does not compile.
PatternInputs == {<< >>, <<"x">>, <<"(">>}

(***************************************************************************)
(* State.                                                                  *)
(***************************************************************************)
VARIABLES
    show,                   \* nv.nodesList[i].show
    exploded,               \* nv.nodesList[i].exploded
    neighbors,              \* nv.nodesList[i].neighbors
    filtered,               \* tree Node.filtered, by node index
    filteredBy,             \* tree Node.filteredBy, by node index
    linksList,              \* nv.linksList
    newCrossLinks,          \* Visual.newCrossLinks
    numLinks,               \* nv.numLinks
    crossLinksDict,         \* the keys of nv.crossLinksDict, as pairs
    currentLayer,           \* Visual.currentLayer
    bounds,                 \* label -> [lower, upper] of each qFilter
    pattern,                \* label -> pattern of each rFilter
    includeNeighbors,       \* label -> whether isNodeInbound is the
                            \* include-neighbors variant
    layer_sorted_links,     \* FilterGroup.layer_sorted_links (link indices)
    layerSortedLinksLength  \* FilterGroup.layerSortedLinksLength

vars == << show, exploded, neighbors, filtered, filteredBy, linksList,
           newCrossLinks, numLinks, crossLinksDict, currentLayer, bounds,
           pattern, includeNeighbors, layer_sorted_links,
           layerSortedLinksLength >>

(***************************************************************************)
(* Filter predicates.                                                      *)
(***************************************************************************)
\* An isInbound whose range leaves out its two bounds.
qIsInbound_Exclusive(b, attribute) ==
    IF attribute >= ToNumber(b.upper) \/ attribute <= ToNumber(b.lower)
    THEN FALSE
    ELSE TRUE

\* qFilter.prototype.isInbound, on the bounds as stored (texts once
\* updateBounds has run).
qIsInbound(b, attribute) ==
    IF attribute > ToNumber(b.upper) \/ attribute < ToNumber(b.lower)
    THEN FALSE
    ELSE TRUE

\* rFilter.prototype.isInbound throws when the pattern does not compile:
\* re stays undefined and re.test is a TypeError.
rIsInboundThrows(p) == ~PatternCompiles(p)

\* rFilter.prototype.isInbound when it returns.
rIsInbound(p, attribute) == RegExpTest(p, attribute)

\* Filter.prototype.isLinkInbound for a qFilter.
isLinkInbound(F, b, link) ==
    qIsInbound(b, IF F.attribute = "utilization" THEN link.utilization
                  ELSE link.capacity)

\* Filter.prototype.isNodeInbound for an rFilter on nodeName:
\* node.getProperty(attribute) is the list element's nodeName.
isNodeInboundPlain(p, node) == rIsInbound(p, NodeName(node))

\* rFilter.prototype.isNodeInboundIncludeNeighbors
isNodeInboundIncludeNeighbors(p, node, nbrs) ==
    \/ rIsInbound(p, NodeName(node))
    \/ \E each \in DOMAIN nbrs[node] : rIsInbound(p, NodeName(each))

\* this.isNodeInbound as rFilter.prototype.toggleIncludeNeighbors left it.
isNodeInbound(p, incl, node, nbrs) ==
    IF incl THEN isNodeInboundIncludeNeighbors(p, node, nbrs)
    ELSE isNodeInboundPlain(p, node)


(***************************************************************************)
(* Node: filtering of the tree.  A tree state is a record                  *)
(* [filtered, filteredBy] of functions over node indices.                  *)
(***************************************************************************)
\* An areChildrenFilteredOut that answers for one filtered child.
areChildrenFilteredOut_Some(tr, node) ==
    \E k \in 1 .. Len(Children(node)) : tr.filtered[Children(node)[k]]

\* Node.prototype.areChildrenFilteredOut
areChildrenFilteredOut(tr, node) ==
    \A k \in 1 .. Len(Children(node)) : tr.filtered[Children(node)[k]]

\* A filter-out that leaves the node unmarked.
FilterOutAndMark_Unmarked(tr, node, label) ==
    [filtered |-> [tr.filtered EXCEPT ![node] = TRUE],
     filteredBy |-> tr.filteredBy]

\* Node.prototype.filterOut followed by Node.prototype.markNode
FilterOutAndMark(tr, node, label) ==
    [filtered |-> [tr.filtered EXCEPT ![node] = TRUE],
     filteredBy |-> [tr.filteredBy EXCEPT ![node] = label]]

\* Node.prototype.filterIn followed by Node.prototype.unmarkNode
FilterInAndUnmark(tr, node) ==
    [filtered |-> [tr.filtered EXCEPT ![node] = FALSE],
     filteredBy |-> [tr.filteredBy EXCEPT ![node] = Null]]

RECURSIVE filterOutRecursive(_, _, _)
RECURSIVE FilterOutChildren(_, _, _, _)
\* A loop of filterOutRecursive that does not look at the child's owner.
FilterOutChildren_AnyOwner(tr, kids, k, label) ==
    IF k > Len(kids) THEN tr
    ELSE FilterOutChildren(
             filterOutRecursive(FilterOutAndMark(tr, kids[k], label),
                                kids[k], label),
             kids, k + 1, label)

\* The loop of filterOutRecursive over node.children, from child k on.
FilterOutChildren(tr, kids, k, label) ==
    IF k > Len(kids) THEN tr
    ELSE LET c == kids[k]
         IN  FilterOutChildren(
                 IF tr.filteredBy[c] = Null
                 THEN filterOutRecursive(FilterOutAndMark(tr, c, label),
                                         c, label)
                 ELSE tr,
                 kids, k + 1, label)

\* NodesTree.prototype.filterOutRecursive
filterOutRecursive(tr, node, label) ==
    IF hasChildren(node) THEN FilterOutChildren(tr, Children(node), 1, label)
    ELSE tr

RECURSIVE filterInRecursive(_, _, _)
RECURSIVE FilterInChildren(_, _, _, _)
\* A loop of filterInRecursive that does not look at the child's owner.
FilterInChildren_AnyOwner(tr, kids, k, label) ==
    IF k > Len(kids) THEN tr
    ELSE FilterInChildren(
             filterInRecursive(FilterInAndUnmark(tr, kids[k]), kids[k], label),
             kids, k + 1, label)

\* The loop of filterInRecursive over node.children, from child k on.
FilterInChildren(tr, kids, k, label) ==
    IF k > Len(kids) THEN tr
    ELSE LET c == kids[k]
         IN  FilterInChildren(
                 IF tr.filteredBy[c] = label
                 THEN filterInRecursive(FilterInAndUnmark(tr, c), c, label)
                 ELSE tr,
                 kids, k + 1, label)

\* NodesTree.prototype.filterInRecursive
filterInRecursive(tr, node, label) ==
    IF hasChildren(node) THEN FilterInChildren(tr, Children(node), 1, label)
    ELSE tr

(***************************************************************************)
(* FilterGroup: the layer-sorted snapshots and their windows.              *)
(***************************************************************************)
\* The type of each element of nv.nodesList, and of each element of the links
\* array ll, by index.
NodeTypes == [i \in Nodes |-> NodeType(i)]
LinkTypes(ll) == [k \in 0 .. Len(ll) - 1 |-> ll[k + 1].type]

\* The elements of array (indices) whose layer order is k, in array order;
\* typeOf gives the type of the element of each index.
RECURSIVE OfOrder(_, _, _, _)
OfOrder(array, typeOf, k, i) ==
    IF i > Len(array) THEN << >>
    ELSE (IF layerOrder[typeOf[array[i]]] = k THEN << array[i] >> ELSE << >>)
             \o OfOrder(array, typeOf, k, i + 1)

\* array.concat().sort(FilterGroup.sortByLayerFunction): ascending layer
\* order, ties in array order.
SortByLayer(array, typeOf) ==
    OfOrder(array, typeOf, 0, 1) \o OfOrder(array, typeOf, 1, 1)
        \o OfOrder(array, typeOf, 2, 1) \o OfOrder(array, typeOf, 3, 1)
        \o OfOrder(array, typeOf, 4, 1)

\* FilterGroup.prototype.getSubArray: the slice from the first element of
\* the layer (no element of the layer: nothing to scan).
getSubArray(array, typeOf, layer) ==
    LET hits == {i \in 1 .. Len(array) : typeOf[array[i]] = layer}
    IN  IF hits = {} THEN << >>
        ELSE SubSeq(array, CHOOSE i \in hits : \A j \in hits : i <= j,
                    Len(array))

\* FilterGroup.layer_sorted_nodes, built once by the constructor.
layer_sorted_nodes ==
    SortByLayer([i \in 1 .. numNodes |-> i - 1], NodeTypes)

\* FilterGroup.prototype.getSubArrayOfSortedNodes
getSubArrayOfSortedNodes(layer) ==
    getSubArray(layer_sorted_nodes, NodeTypes, layer)


(***************************************************************************)
(* Filter.prototype.filterNodes                                            *)
(***************************************************************************)
\* The test of the filter-out branch for a node of the filter's layer;
\* inbound is what this.isNodeInbound(node) returns.
NodeFilterOutCase(tr, node, F, inbound) ==
    /\ ~tr.filtered[node]
    /\ ~inbound
    /\ tr.filteredBy[node] = Null

\* A filter-in branch for nodes that does not look at the owner.
NodeFilterInCase_AnyOwner(tr, node, F, inbound) ==
    /\ tr.filtered[node]
    /\ inbound

\* The test of the filter-in branch for a node of the filter's layer.
NodeFilterInCase(tr, node, F, inbound) ==
    /\ tr.filtered[node]
    /\ inbound
    /\ tr.filteredBy[node] = F.label

\* One pass of an rFilter F with pattern p over the window sub_array, from
\* element i on.  An isNodeInbound that throws ends the pass where it is.
RECURSIVE FilterNodesLoop(_, _, _, _, _, _, _)
FilterNodesLoop(tr, sub_array, i, F, p, incl, nbrs) ==
    IF i > Len(sub_array) THEN tr
    ELSE
      LET node == TreeNodeOf[sub_array[i]]
      IN  IF NodeType(sub_array[i]) = F.layer
          THEN IF rIsInboundThrows(p) THEN tr
               ELSE FilterNodesLoop(
                      IF NodeFilterOutCase(tr, node, F,
                             isNodeInbound(p, incl, node, nbrs))
                      THEN LET marked == FilterOutAndMark(tr, node, F.label)
                           IN  IF hasChildren(node)
                               THEN filterOutRecursive(marked, node, F.label)
                               ELSE marked
                      ELSE IF NodeFilterInCase(tr, node, F,
                                  isNodeInbound(p, incl, node, nbrs))
                      THEN LET unmarked == FilterInAndUnmark(tr, node)
                           IN  IF hasChildren(node)
                               THEN filterInRecursive(unmarked, node, F.label)
                               ELSE unmarked
                      ELSE tr,
                      sub_array, i + 1, F, p, incl, nbrs)
          ELSE FilterNodesLoop(
                 IF ~tr.filtered[node] /\ areChildrenFilteredOut(tr, node)
                 THEN FilterOutAndMark(tr, node, F.label)
                 ELSE IF tr.filtered[node] /\ ~areChildrenFilteredOut(tr, node)
                 THEN FilterInAndUnmark(tr, node)
                 ELSE tr,
                 sub_array, i + 1, F, p, incl, nbrs)

\* Filter.prototype.filterNodes: the tree after the pass.
filterNodes(tr, F, p, incl, nbrs) ==
    FilterNodesLoop(tr, getSubArrayOfSortedNodes(F.layer), 1, F, p, incl,
                    nbrs)

\* Whether the pass ends in an exception: an empty window has no length,
\* and the first element of the window is of the filter's layer.
filterNodesThrows(F, p) ==
    getSubArrayOfSortedNodes(F.layer) = << >> \/ rIsInboundThrows(p)

(***************************************************************************)
(* Links of a link, and Filter.prototype.filterLinks                       *)
(***************************************************************************)
\* A getLinkChildren without the test of the type.
getLinkChildren_AnyType(ll, nbrs, link) ==
    LET targetNodeIndices ==
            {link.target} \cup ChildIndices[TreeNodeOf[link.target]]
        sourceNodeIndices ==
            {link.source} \cup ChildIndices[TreeNodeOf[link.source]]
    IN  UNION {
            {nbrs[source][target] :
                target \in {x \in DOMAIN nbrs[source] : x \in targetNodeIndices}} :
            source \in sourceNodeIndices}

\* NodesTree.prototype.getLinkChildren: the indices of the child links.
getLinkChildren(ll, nbrs, link) ==
    LET targetNodeIndices ==
            {link.target} \cup ChildIndices[TreeNodeOf[link.target]]
        sourceNodeIndices ==
            {link.source} \cup ChildIndices[TreeNodeOf[link.source]]
    IN  UNION {
            {nbrs[source][target] :
                target \in {x \in DOMAIN nbrs[source] :
                    /\ x \in targetNodeIndices
                    /\ ll[nbrs[source][x] + 1].type # link.type}} :
            source \in sourceNodeIndices}

\* An areLinkChildrenFilteredOut that answers for one filtered child link.
areLinkChildrenFilteredOut_Some(ll, nbrs, link) ==
    \E k \in getLinkChildren(ll, nbrs, link) : ll[k + 1].filtered

\* NodesTree.prototype.areLinkChildrenFilteredOut
areLinkChildrenFilteredOut(ll, nbrs, link) ==
    \A k \in getLinkChildren(ll, nbrs, link) : ll[k + 1].filtered

\* A filter-out of a link that leaves filteredBy as it is.
LinkOut_Unmarked(ll, k, label) ==
    [ll EXCEPT ![k + 1].filtered = TRUE]

\* link.filtered = true; link.filteredBy = label (link index k)
LinkOut(ll, k, label) ==
    [ll EXCEPT ![k + 1].filtered = TRUE, ![k + 1].filteredBy = label]

\* link.filtered = false; link.filteredBy = null (link index k)
LinkIn(ll, k) ==
    [ll EXCEPT ![k + 1].filtered = FALSE, ![k + 1].filteredBy = Null]

\* A filter-out branch for links with the test of the bounds inverted.
LinkFilterOutCase_Inbound(link, F, b) ==
    /\ ~link.filtered
    /\ isLinkInbound(F, b, link)
    /\ link.filteredBy = Null

\* The test of the filter-out branch for a link of the filter's layer.
LinkFilterOutCase(link, F, b) ==
    /\ ~link.filtered
    /\ ~isLinkInbound(F, b, link)
    /\ link.filteredBy = Null

\* A filter-in branch for links that does not look at the owner.
LinkFilterInCase_AnyOwner(link, F, b) ==
    /\ link.filtered
    /\ isLinkInbound(F, b, link)

\* A filter-in branch for links that does not look at the bounds.
LinkFilterInCase_NoBounds(link, F, b) ==
    /\ link.filtered
    /\ link.filteredBy = F.label

\* The test of the filter-in branch for a link of the filter's layer.
LinkFilterInCase(link, F, b) ==
    /\ link.filtered
    /\ isLinkInbound(F, b, link)
    /\ link.filteredBy = F.label

\* One pass of a qFilter F with bounds b over the window sub_array (link
\* indices), from element i on.
RECURSIVE FilterLinksLoop(_, _, _, _, _, _)
FilterLinksLoop(ll, sub_array, i, F, b, nbrs) ==
    IF i > Len(sub_array) THEN ll
    ELSE
      LET k == sub_array[i]
          link == ll[k + 1]
      IN  FilterLinksLoop(
            IF link.type = F.layer
            THEN IF LinkFilterOutCase(link, F, b)
                 THEN LinkOut(ll, k, F.label)
                 ELSE IF LinkFilterInCase(link, F, b)
                 THEN LinkIn(ll, k)
                 ELSE ll
            ELSE IF ~link.filtered /\ areLinkChildrenFilteredOut(ll, nbrs, link)
                 THEN LinkOut(ll, k, F.label)
                 ELSE IF /\ link.filtered
                         /\ ~areLinkChildrenFilteredOut(ll, nbrs, link)
                 THEN LinkIn(ll, k)
                 ELSE ll,
            sub_array, i + 1, F, b, nbrs)

\* A getSubArrayOfSortedLinks that never sorts again.
RefreshedSortedLinks_Never(ll, n, sorted, sortedLength) == sorted

\* The snapshot FilterGroup.prototype.getSubArrayOfSortedLinks leaves in
\* layer_sorted_links: sorted again when the links count has grown.
RefreshedSortedLinks(ll, n, sorted, sortedLength) ==
    IF n > sortedLength
    THEN SortByLayer([i \in 1 .. Len(ll) |-> i - 1], LinkTypes(ll))
    ELSE sorted

\* ... and the length it leaves in layerSortedLinksLength.
RefreshedSortedLength(n, sortedLength) ==
    IF n > sortedLength THEN n ELSE sortedLength

\* FilterGroup.prototype.getSubArrayOfSortedLinks: the window returned.
getSubArrayOfSortedLinks(ll, n, sorted, sortedLength, layer) ==
    getSubArray(RefreshedSortedLinks(ll, n, sorted, sortedLength),
                LinkTypes(ll), layer)

\* Filter.prototype.filterLinks: nv.linksList after the pass.
filterLinks(ll, n, sorted, sortedLength, F, b, nbrs) ==
    FilterLinksLoop(ll,
                    getSubArrayOfSortedLinks(ll, n, sorted, sortedLength,
                                             F.layer),
                    1, F, b, nbrs)



(***************************************************************************)
(* The whole state as a record s, one field per variable; the methods      *)
(* below map a state to the state they leave.                              *)
(***************************************************************************)
S ==
    [show |-> show, exploded |-> exploded, neighbors |-> neighbors,
     filtered |-> filtered, filteredBy |-> filteredBy,
     linksList |-> linksList, newCrossLinks |-> newCrossLinks,
     numLinks |-> numLinks, crossLinksDict |-> crossLinksDict,
     currentLayer |-> currentLayer, bounds |-> bounds, pattern |-> pattern,
     includeNeighbors |-> includeNeighbors,
     layer_sorted_links |-> layer_sorted_links,
     layerSortedLinksLength |-> layerSortedLinksLength]

\* The next state is t.
Becomes(t) ==
    /\ show' = t.show
    /\ exploded' = t.exploded
    /\ neighbors' = t.neighbors
    /\ filtered' = t.filtered
    /\ filteredBy' = t.filteredBy
    /\ linksList' = t.linksList
    /\ newCrossLinks' = t.newCrossLinks
    /\ numLinks' = t.numLinks
    /\ crossLinksDict' = t.crossLinksDict
    /\ currentLayer' = t.currentLayer
    /\ bounds' = t.bounds
    /\ pattern' = t.pattern
    /\ includeNeighbors' = t.includeNeighbors
    /\ layer_sorted_links' = t.layer_sorted_links
    /\ layerSortedLinksLength' = t.layerSortedLinksLength

(***************************************************************************)
(* Visual: crosslinks and explosion.                                       *)
(***************************************************************************)
\* The two records buildCrosslinks_ pushes on newCrossLinks.
CrossLinkRecords(mainIndex, neighborIndex) ==
    LET crossLink1 ==
            [source |-> mainIndex, target |-> neighborIndex,
             type |-> NodeType(mainIndex) \o "_" \o NodeType(neighborIndex),
             filtered |-> FALSE, filteredBy |-> Null,
             utilization |-> -1, capacity |-> -1]
        crossLink2 ==
            [crossLink1 EXCEPT !.source = neighborIndex, !.target = mainIndex]
    IN  << crossLink1, crossLink2 >>

\* A buildCrosslinks_ that registers the key of the first record only.
buildCrosslinks_OneKey(s, mainIndex, neighborIndex) ==
    [s EXCEPT
        !.neighbors =
            [[@ EXCEPT ![mainIndex] = (neighborIndex :> s.numLinks) @@ @]
                EXCEPT ![neighborIndex] = (mainIndex :> (s.numLinks + 1)) @@ @],
        !.numLinks = s.numLinks + 2,
        !.newCrossLinks = @ \o CrossLinkRecords(mainIndex, neighborIndex),
        !.crossLinksDict = @ \cup {<< mainIndex, neighborIndex >>}]

\* A buildCrosslinks_ that gives both records' neighbors entries the index
\* of the first record.
buildCrosslinks_SameIndex(s, mainIndex, neighborIndex) ==
    [s EXCEPT
        !.neighbors =
            [[@ EXCEPT ![mainIndex] = (neighborIndex :> s.numLinks) @@ @]
                EXCEPT ![neighborIndex] = (mainIndex :> s.numLinks) @@ @],
        !.numLinks = s.numLinks + 2,
        !.newCrossLinks = @ \o CrossLinkRecords(mainIndex, neighborIndex),
        !.crossLinksDict = @ \cup {<< mainIndex, neighborIndex >>,
                                   << neighborIndex, mainIndex >>}]

\* A buildCrosslinks_ without the second nv.numLinks++.
buildCrosslinks_CountedOnce(s, mainIndex, neighborIndex) ==
    [s EXCEPT
        !.neighbors =
            [[@ EXCEPT ![mainIndex] = (neighborIndex :> s.numLinks) @@ @]
                EXCEPT ![neighborIndex] = (mainIndex :> (s.numLinks + 1)) @@ @],
        !.numLinks = s.numLinks + 1,
        !.newCrossLinks = @ \o CrossLinkRecords(mainIndex, neighborIndex),
        !.crossLinksDict = @ \cup {<< mainIndex, neighborIndex >>,
                                   << neighborIndex, mainIndex >>}]

\* Visual.prototype.buildCrosslinks_
buildCrosslinks_(s, mainIndex, neighborIndex) ==
    LET crossLink1 == CrossLinkRecords(mainIndex, neighborIndex)[1]
        crossLink2 == CrossLinkRecords(mainIndex, neighborIndex)[2]
        neighbors1 ==
            [s.neighbors EXCEPT ![mainIndex] = (neighborIndex :> s.numLinks) @@ @]
        neighbors2 ==
            [neighbors1 EXCEPT
                ![neighborIndex] = (mainIndex :> (s.numLinks + 1)) @@ @]
    IN  [s EXCEPT
            !.neighbors = neighbors2,
            !.numLinks = s.numLinks + 2,
            !.newCrossLinks = @ \o << crossLink1, crossLink2 >>,
            !.crossLinksDict = @ \cup {<< mainIndex, neighborIndex >>,
                                       << neighborIndex, mainIndex >>}]

\* A dictionary test that never finds the key.
InCrossLinksDict_Never(s, mainIndex, neighborIndex) == FALSE

\* testkey in nv.crossLinksDict, testkey being mainIndex_neighborIndex
InCrossLinksDict(s, mainIndex, neighborIndex) ==
    << mainIndex, neighborIndex >> \in s.crossLinksDict

RECURSIVE buildUpCrosslinks(_, _, _)
\* A buildUpCrosslinks that builds the first pair and does not go on to the
\* neighbor's parent.
buildUpCrosslinks_OneStep(s, mainIndex, neighborIndex) ==
    IF /\ ~InCrossLinksDict(s, mainIndex, neighborIndex)
       /\ NodeType(mainIndex) # NodeType(neighborIndex)
    THEN buildCrosslinks_(s, mainIndex, neighborIndex)
    ELSE s

\* A buildUpCrosslinks without the test of the two layer types.
buildUpCrosslinks_AnyType(s, mainIndex, neighborIndex) ==
    IF ~InCrossLinksDict(s, mainIndex, neighborIndex)
    THEN LET built == buildCrosslinks_(s, mainIndex, neighborIndex)
             neighbor_node == TreeNodeOf[neighborIndex]
         IN  IF ParentOf[neighbor_node] # NoIndex
             THEN buildUpCrosslinks(built, mainIndex, ParentOf[neighbor_node])
             ELSE built
    ELSE s

\* Visual.prototype.buildUpCrosslinks
buildUpCrosslinks(s, mainIndex, neighborIndex) ==
    LET isSameType == NodeType(mainIndex) = NodeType(neighborIndex)
    IN  IF ~InCrossLinksDict(s, mainIndex, neighborIndex) /\ ~isSameType
        THEN LET built == buildCrosslinks_(s, mainIndex, neighborIndex)
                 neighbor_node == TreeNodeOf[neighborIndex]
             IN  IF ParentOf[neighbor_node] # NoIndex
                 THEN buildUpCrosslinks(built, mainIndex,
                                        ParentOf[neighbor_node])
                 ELSE built
        ELSE s

RECURSIVE buildDownCrosslinks(_, _, _)
RECURSIVE BuildDownChildren(_, _, _, _)
\* The loop of buildDownCrosslinks over neighbor_node.children, from child
\* k on.
BuildDownChildren(s, mainIndex, kids, k) ==
    IF k > Len(kids) THEN s
    ELSE BuildDownChildren(buildDownCrosslinks(s, mainIndex, kids[k]),
                           mainIndex, kids, k + 1)

\* A buildDownCrosslinks that takes every neighbor for shown.
buildDownCrosslinks_NoShowTest(s, mainIndex, neighborIndex) ==
    IF /\ ~InCrossLinksDict(s, mainIndex, neighborIndex)
       /\ NodeType(mainIndex) # NodeType(neighborIndex)
    THEN buildCrosslinks_(s, mainIndex, neighborIndex)
    ELSE s

\* Visual.prototype.buildDownCrosslinks
buildDownCrosslinks(s, mainIndex, neighborIndex) ==
    LET isSameType == NodeType(mainIndex) = NodeType(neighborIndex)
    IN  IF /\ s.show[neighborIndex]
           /\ ~InCrossLinksDict(s, mainIndex, neighborIndex)
           /\ ~isSameType
        THEN buildCrosslinks_(s, mainIndex, neighborIndex)
        ELSE IF ~s.show[neighborIndex]
        THEN BuildDownChildren(s, mainIndex,
                               Children(TreeNodeOf[neighborIndex]), 1)
        ELSE s

\* The keys of a neighbors map in for...in order: ascending indices.
RECURSIVE KeysInOrder(_)
KeysInOrder(K) ==
    IF K = {} THEN << >>
    ELSE LET m == CHOOSE x \in K : \A y \in K : x <= y
         IN  << m >> \o KeysInOrder(K \ {m})

\* The loop of explodeNode over elt.neighbors for one child, from key j on.
RECURSIVE ExplodeNeighbors(_, _, _, _)
ExplodeNeighbors(s, child_index, keys, j) ==
    IF j > Len(keys) THEN s
    ELSE ExplodeNeighbors(
             buildDownCrosslinks(
                 buildUpCrosslinks(s, child_index, keys[j]),
                 child_index, keys[j]),
             child_index, keys, j + 1)

\* A reveal of the child that leaves its exploded flag as it is.
ShowChild_FlagLeft(s, child_index) ==
    [s EXCEPT !.show[child_index] = TRUE]

\* A reveal of the child that also filters it back in.
ShowChild_FilteredIn(s, child_index) ==
    [s EXCEPT !.show[child_index] = TRUE, !.exploded[child_index] = TRUE,
              !.filtered[TreeNodeOf[child_index]] = FALSE,
              !.filteredBy[TreeNodeOf[child_index]] = Null]

\* nv.nodesList[child_index].show = true; ....exploded = true
ShowChild(s, child_index) ==
    [s EXCEPT !.show[child_index] = TRUE, !.exploded[child_index] = TRUE]

RECURSIVE ExplodeChildren(_, _, _, _)
\* A loop over node.children that walks the revealed child's neighbors
\* instead of elt.neighbors.
ExplodeChildren_ChildNeighbors(s, elt, kids, k) ==
    IF k > Len(kids) THEN s
    ELSE LET child_index == kids[k]
             shown == ShowChild(s, child_index)
         IN  ExplodeChildren(
                 ExplodeNeighbors(
                     shown, child_index,
                     KeysInOrder(DOMAIN shown.neighbors[child_index]), 1),
                 elt, kids, k + 1)

\* The loop of explodeNode over node.children, from child k on.
ExplodeChildren(s, elt, kids, k) ==
    IF k > Len(kids) THEN s
    ELSE LET child_index == kids[k]
             shown == ShowChild(s, child_index)
         IN  ExplodeChildren(
                 ExplodeNeighbors(shown, child_index,
                                  KeysInOrder(DOMAIN shown.neighbors[elt]), 1),
                 elt, kids, k + 1)

\* Visual.prototype.renderLinks
renderLinks(s) ==
    [s EXCEPT !.linksList = @ \o s.newCrossLinks, !.newCrossLinks = << >>]

\* Visual.prototype.explodeNode
explodeNode(s, elt) ==
    LET node == TreeNodeOf[elt]
    IN  renderLinks(
            IF hasChildren(node)
            THEN ExplodeChildren(
                     [s EXCEPT !.show[elt] = FALSE, !.exploded[elt] = TRUE],
                     elt, Children(node), 1)
            ELSE s)

\* Visual.prototype.renderNodes
renderNodes(s, resetExplosions) ==
    LET ex == IF resetExplosions THEN [i \in Nodes |-> FALSE] ELSE s.exploded
    IN  [s EXCEPT
            !.exploded = ex,
            !.show = [i \in Nodes |->
                IF s.filtered[TreeNodeOf[i]] THEN FALSE
                ELSE IF NodeType(i) = s.currentLayer /\ ~ex[i] THEN TRUE
                ELSE IF NodeType(i) # s.currentLayer /\ ~ex[i] THEN FALSE
                ELSE s.show[i]]]

\* A setCurrentLayer whose reset of the explosions forgets the crosslinks
\* built so far.
setCurrentLayer_ForgetDict(s, layer) ==
    [renderNodes([s EXCEPT !.currentLayer = layer], TRUE)
        EXCEPT !.crossLinksDict = {}]

\* A setCurrentLayer that renders without the reset of the explosions.
setCurrentLayer_NoReset(s, layer) ==
    renderNodes([s EXCEPT !.currentLayer = layer], FALSE)

\* Visual.prototype.setCurrentLayer
setCurrentLayer(s, layer) ==
    renderNodes([s EXCEPT !.currentLayer = layer], TRUE)

(***************************************************************************)
(* FilterGroup and InteractionControl.                                     *)
(***************************************************************************)
\* FilterGroup.prototype.filterLinks(layer, attribute, input), F the filter
\* of that layer and attribute: updateBounds, then the pass.
FilterGroup_filterLinks(s, F, input) ==
    LET vals == Split(input, ";")
        b == [lower |-> vals[1], upper |-> vals[2]]
    IN  [s EXCEPT
            !.bounds[F.label] = b,
            !.linksList =
                filterLinks(s.linksList, s.numLinks, s.layer_sorted_links,
                            s.layerSortedLinksLength, F, b, s.neighbors),
            !.layer_sorted_links =
                RefreshedSortedLinks(s.linksList, s.numLinks,
                                     s.layer_sorted_links,
                                     s.layerSortedLinksLength),
            !.layerSortedLinksLength =
                RefreshedSortedLength(s.numLinks, s.layerSortedLinksLength)]

\* A node pass that also folds every node it leaves filtered out.
FilterGroup_filterNodes_Folding(s, F, input) ==
    LET tr == filterNodes([filtered |-> s.filtered,
                           filteredBy |-> s.filteredBy],
                          F, input, s.includeNeighbors[F.label], s.neighbors)
    IN  [s EXCEPT
            !.pattern[F.label] = input,
            !.filtered = tr.filtered,
            !.filteredBy = tr.filteredBy,
            !.exploded = [i \in Nodes |->
                             @[i] /\ ~tr.filtered[TreeNodeOf[i]]]]

\* FilterGroup.prototype.filterNodes(layer, attribute, input), F the filter
\* of that layer and attribute: updatePattern, then the pass.
FilterGroup_filterNodes(s, F, input) ==
    LET tr == filterNodes([filtered |-> s.filtered,
                           filteredBy |-> s.filteredBy],
                          F, input, s.includeNeighbors[F.label], s.neighbors)
    IN  [s EXCEPT
            !.pattern[F.label] = input,
            !.filtered = tr.filtered,
            !.filteredBy = tr.filteredBy]

\* Whether InteractionControl.prototype.applyFilter ends in an exception.
applyFilterThrows(F, input) ==
    F \notin LinkFilters /\ filterNodesThrows(F, input)

\* InteractionControl.prototype.applyFilter for the filter F whose input
\* element reads input; an exception in the pass skips the rendering.
applyFilter(s, F, input) ==
    IF F \in LinkFilters
    THEN renderLinks(renderNodes(FilterGroup_filterLinks(s, F, input), FALSE))
    ELSE IF applyFilterThrows(F, input)
    THEN FilterGroup_filterNodes(s, F, input)
    ELSE renderLinks(renderNodes(FilterGroup_filterNodes(s, F, input), FALSE))

\* rFilter.prototype.toggleIncludeNeighbors on the filter F
toggleIncludeNeighbors(s, F, bool) ==
    [s EXCEPT !.includeNeighbors[F.label] = bool]

(***************************************************************************)
(* The state after nv.init, and the user actions.                          *)
(***************************************************************************)
Init ==
    /\ exploded = [i \in Nodes |-> FALSE]
    /\ show = [i \in Nodes |-> NodeType(i) = "metro"]
    /\ neighbors = InitNeighbors
    /\ filtered = [i \in Nodes |-> FALSE]
    /\ filteredBy = [i \in Nodes |-> Null]
    /\ linksList = links_list
    /\ newCrossLinks = << >>
    /\ numLinks = Len(links_list)
    /\ crossLinksDict = {}
    /\ currentLayer = "metro"
    /\ bounds = [l \in LinkLabels |->
                    [lower |-> NumToStr(InitLower),
                     upper |-> NumToStr(InitUpper)]]
    /\ pattern = [l \in NodeLabels |-> << >>]
    /\ includeNeighbors = [l \in NodeLabels |-> FALSE]
    /\ layer_sorted_links =
           SortByLayer([i \in 1 .. Len(links_list) |-> i - 1],
                       LinkTypes(links_list))
    /\ layerSortedLinksLength = Len(links_list)

\* The number of crosslink pairs built so far.
CrossPairs(s) == (s.numLinks - Len(links_list)) \div 2

\* A double click on the visible mark of node elt, while at most cap
\* crosslink pairs exist.
ExplodeNode(elt, cap) ==
    /\ show[elt]
    /\ CrossPairs(S) <= cap
    /\ Becomes(explodeNode(S, elt))

\* A choice of the layer to display.
SetCurrentLayer(layer) ==
    /\ layer \in Layers
    /\ Becomes(setCurrentLayer(S, layer))

\* A move of the slider of link filter F to input.
ApplyLinkFilter(F, input) ==
    /\ F \in LinkFilters
    /\ Becomes(applyFilter(S, F, input))

\* Enter in the text box of node filter F, which holds input.
ApplyNodeFilter(F, input) ==
    /\ F \in NodeFilters
    /\ Becomes(applyFilter(S, F, input))

\* A click on the "Include neighbors" checkbox.
ToggleIncludeNeighbors(bool) ==
    /\ bool \in BOOLEAN
    /\ Becomes(toggleIncludeNeighbors(S, routerNameFilter, bool))

Next ==
    \/ \E elt \in Nodes : ExplodeNode(elt, MaxCrossPairs)
    \/ \E layer \in Layers : SetCurrentLayer(layer)
    \/ \E F \in LinkFilters, input \in SliderInputs : ApplyLinkFilter(F, input)
    \/ \E input \in PatternInputs : ApplyNodeFilter(routerNameFilter, input)

\* The application as nv.init configures it, the "Include neighbors"
\* checkbox left unchecked.
Spec == Init /\ [][Next]_vars

NextExplode ==
    \/ \E elt \in Nodes : ExplodeNode(elt, MaxCrossPairsDeep)
    \/ \E layer \in Layers : SetCurrentLayer(layer)
    \/ \E input \in PatternInputs : ApplyNodeFilter(routerNameFilter, input)

\* The explosion engine: explosions, layer choices and the node filter that
\* hides nodes.
SpecExplode == Init /\ [][NextExplode]_vars

NextLib ==
    \/ \E layer \in Layers : SetCurrentLayer(layer)
    \/ \E F \in NodeFilters, input \in PatternInputs : ApplyNodeFilter(F, input)
    \/ \E F \in LinkFilters, input \in SliderInputs : ApplyLinkFilter(F, input)
    \/ \E bool \in BOOLEAN : ToggleIncludeNeighbors(bool)

\* The filters alone, with a pop-layer pattern filter registered (through
\* FilterGroup.addNodeFilter, and read from an input element of its own)
\* beside the three filters of nv.init.
SpecLib == Init /\ [][NextLib]_vars

(***************************************************************************)
(* Properties of the filters.                                              *)
(***************************************************************************)
\* The filters a pass can run with and the texts their input elements hold.
Filters == LinkFilters \cup NodeFilters
InputsOf(F) == IF F \in LinkFilters THEN SliderInputs ELSE PatternInputs

\* The bounds updateBounds stores for the slider text input.
BoundsOf(input) ==
    LET vals == Split(input, ";") IN [lower |-> vals[1], upper |-> vals[2]]

\* Node i is filtered out and owned by a filter other than F2.
NodeOwnedByOther(s, i, F2) ==
    /\ s.filtered[TreeNodeOf[i]]
    /\ s.filteredBy[TreeNodeOf[i]] \notin {Null, F2.label}

\* The link of index k is filtered out and owned by a filter other than F2.
LinkOwnedByOther(s, k, F2) ==
    /\ s.linksList[k + 1].filtered
    /\ s.linksList[k + 1].filteredBy \notin {Null, F2.label}

\* The pass that takes s to t left node i as it was.
NodeKept(s, t, i) ==
    /\ t.filtered[TreeNodeOf[i]] = s.filtered[TreeNodeOf[i]]
    /\ t.filteredBy[TreeNodeOf[i]] = s.filteredBy[TreeNodeOf[i]]

\* The pass that takes s to t left the link of index k as it was.
LinkKept(s, t, k) ==
    /\ t.linksList[k + 1].filtered = s.linksList[k + 1].filtered
    /\ t.linksList[k + 1].filteredBy = s.linksList[k + 1].filteredBy

\* The layer of an element is not coarser than the layer filter F2 works on.
NotCoarser(type, F2) == layerOrder[type] <= layerOrder[F2.layer]

\* C1, as amended: an element that a filter F1 has filtered out and owns, and
\* whose layer is the target layer of another filter F2 or a finer one, keeps
\* its filtered flag and its owner through any pass of F2 (nodes through
\* filterNodes, links through filterLinks).  Elements of a coarser layer are
\* left out: their state is recomputed from their children by every pass.
C1_OwnershipExclusivity ==
    \A F2 \in Filters : \A input \in InputsOf(F2) :
        LET t == applyFilter(S, F2, input)
        IN  /\ \A i \in Nodes :
                (/\ NodeOwnedByOther(S, i, F2)
                 /\ F2 \in NodeFilters => NotCoarser(NodeType(i), F2))
                    => NodeKept(S, t, i)
            /\ \A k \in 0 .. Len(linksList) - 1 :
                (/\ LinkOwnedByOther(S, k, F2)
                 /\ F2 \in LinkFilters
                        => NotCoarser(linksList[k + 1].type, F2))
                    => LinkKept(S, t, k)

\* C1 witness: a router link owned by one link filter is in range for the
\* other link filter, whose pass changes other links.
C1_Witness ==
    \E F2 \in LinkFilters : \E input \in SliderInputs :
        \E k \in 0 .. Len(linksList) - 1 :
            /\ linksList[k + 1].type = F2.layer
            /\ LinkOwnedByOther(S, k, F2)
            /\ isLinkInbound(F2, BoundsOf(input), linksList[k + 1])
            /\ applyFilter(S, F2, input).linksList # linksList

\* C1 as stated: the same for every element, of the target layer and of
\* coarser layers alike.
C1_ExclusivityAllLayers ==
    \A F2 \in Filters : \A input \in InputsOf(F2) :
        LET t == applyFilter(S, F2, input)
        IN  /\ \A i \in Nodes :
                NodeOwnedByOther(S, i, F2) => NodeKept(S, t, i)
            /\ \A k \in 0 .. Len(linksList) - 1 :
                LinkOwnedByOther(S, k, F2) => LinkKept(S, t, k)

\* The tree a pass of node filter F on the pattern input leaves.
TreeAfter(F, input) ==
    filterNodes([filtered |-> filtered, filteredBy |-> filteredBy], F, input,
                includeNeighbors[F.label], neighbors)

\* The tree nodes of a layer coarser than the one filter F works on.
CoarserNodes(F) ==
    {i \in Nodes : layerOrder[NodeType(i)] > layerOrder[F.layer]}

\* C2: when a pass of Filter.filterNodes at layer L returns, every tree node
\* of a layer coarser than L is filtered if and only if all of its direct
\* children are filtered, on the states the pass has written.
C2_NodesBottomUp ==
    \A F \in NodeFilters : \A input \in PatternInputs :
        ~filterNodesThrows(F, input) =>
            LET tr == TreeAfter(F, input)
            IN  \A i \in CoarserNodes(F) :
                    tr.filtered[TreeNodeOf[i]]
                        <=> \A c \in ChildIndices[TreeNodeOf[i]] :
                                tr.filtered[TreeNodeOf[c]]

\* C2 witness: a pass that returns and changes the tree leaves one coarser
\* node filtered, all its children being filtered, and another one not.
C2_Witness ==
    \E F \in NodeFilters : \E input \in PatternInputs :
        /\ ~filterNodesThrows(F, input)
        /\ LET tr == TreeAfter(F, input)
           IN  /\ tr.filtered # filtered
               /\ \E a, b \in CoarserNodes(F) :
                      /\ tr.filtered[TreeNodeOf[a]]
                      /\ ChildIndices[TreeNodeOf[a]] # {}
                      /\ ~tr.filtered[TreeNodeOf[b]]

\* The links a pass of link filter F on the slider text input leaves.
LinksAfter(F, input) == applyFilter(S, F, input).linksList

\* C3: when a pass of Filter.filterLinks at layer L returns, every link whose
\* type is not L (pop links, metro links, crosslinks) is filtered if and only
\* if every link of getLinkChildren(link) is filtered, on the states the pass
\* has written.
C3_LinksBottomUp ==
    \A F \in LinkFilters : \A input \in SliderInputs :
        LET ll == LinksAfter(F, input)
        IN  \A k \in 1 .. Len(ll) :
                ll[k].type # F.layer =>
                    (ll[k].filtered
                        <=> \A c \in getLinkChildren(ll, neighbors, ll[k]) :
                                ll[c + 1].filtered)

\* C3 witness: crosslinks exist, and a pass that changes the links leaves a
\* crosslink with child links filtered and a link of another layer not.
C3_Witness ==
    \E F \in LinkFilters : \E input \in SliderInputs :
        LET ll == LinksAfter(F, input)
        IN  /\ ll # linksList
            /\ \E k, j \in 1 .. Len(ll) :
                   /\ k > Len(links_list)
                   /\ getLinkChildren(ll, neighbors, ll[k]) # {}
                   /\ ll[k].filtered
                   /\ ll[j].type # F.layer
                   /\ ~ll[j].filtered

\* The nodes filterOutRecursive reaches from node n in the current tree: the
\* unowned children of n, then theirs.
RECURSIVE UnownedBelow(_)
UnownedBelow(n) ==
    LET kids == {c \in ChildIndices[TreeNodeOf[n]] :
                    filteredBy[TreeNodeOf[c]] = Null}
    IN  kids \cup UNION {UnownedBelow(c) : c \in kids}

\* Whether node i passes the predicate of node filter F on the pattern input.
NodePasses(F, input, i) ==
    isNodeInbound(input, includeNeighbors[F.label], TreeNodeOf[i], neighbors)

\* The nodes, and the positions in nv.linksList of the links, of the layer
\* filter F works on.
TargetNodes(F) == {i \in Nodes : NodeType(i) = F.layer}
TargetLinks(F) == {k \in 1 .. Len(linksList) : linksList[k].type = F.layer}

\* C6: in a pass of filter F at layer L, an element of layer L that is
\* unfiltered, fails F's predicate and has no owner ends filtered and owned
\* by F, and so does every node filterOutRecursive reaches below it through
\* unowned children; an element of layer L that another filter owns ends as
\* it was.
C6_TargetLayerFilterOut ==
    /\ \A F \in NodeFilters : \A input \in PatternInputs :
           ~filterNodesThrows(F, input) =>
               LET tr == TreeAfter(F, input)
               IN  \A i \in TargetNodes(F) :
                       /\ (/\ ~filtered[TreeNodeOf[i]]
                           /\ ~NodePasses(F, input, i)
                           /\ filteredBy[TreeNodeOf[i]] = Null)
                              => \A d \in {i} \cup UnownedBelow(i) :
                                     /\ tr.filtered[TreeNodeOf[d]]
                                     /\ tr.filteredBy[TreeNodeOf[d]] = F.label
                       /\ NodeOwnedByOther(S, i, F)
                              => NodeKept(S, tr, i)
    /\ \A F \in LinkFilters : \A input \in SliderInputs :
           LET ll == LinksAfter(F, input)
           IN  \A k \in TargetLinks(F) :
                   /\ (/\ ~linksList[k].filtered
                       /\ ~isLinkInbound(F, BoundsOf(input), linksList[k])
                       /\ linksList[k].filteredBy = Null)
                          => /\ ll[k].filtered
                             /\ ll[k].filteredBy = F.label
                   /\ LinkOwnedByOther(S, k - 1, F)
                          => /\ ll[k].filtered = linksList[k].filtered
                             /\ ll[k].filteredBy = linksList[k].filteredBy

\* C6 witness: a pass can start where a node of its layer is unfiltered,
\* unowned and fails the predicate, one of its children being unowned and
\* another owned by another filter, and where another node of the layer is
\* owned by another filter.
C6_Witness ==
    \E F \in NodeFilters : \E input \in PatternInputs :
        /\ ~filterNodesThrows(F, input)
        /\ \E i, j \in TargetNodes(F) :
               /\ ~filtered[TreeNodeOf[i]]
               /\ ~NodePasses(F, input, i)
               /\ filteredBy[TreeNodeOf[i]] = Null
               /\ UnownedBelow(i) # {}
               /\ ChildIndices[TreeNodeOf[i]] \ UnownedBelow(i) # {}
               /\ NodeOwnedByOther(S, j, F)

\* C7: in a pass of filter F at layer L, an element of layer L goes from
\* filtered to unfiltered only if it passes F's predicate and F owns it, and
\* it ends with no owner; an element of layer L that is filtered and owned
\* by another filter ends as it was, and meeting one raises no error: a pass
\* ends in an exception only when its pattern does not compile.
C7_TargetLayerFilterIn ==
    /\ \A F \in NodeFilters : \A input \in PatternInputs :
           LET tr == TreeAfter(F, input)
           IN  \A i \in TargetNodes(F) :
                   /\ (filtered[TreeNodeOf[i]] /\ ~tr.filtered[TreeNodeOf[i]])
                          => /\ NodePasses(F, input, i)
                             /\ filteredBy[TreeNodeOf[i]] = F.label
                             /\ tr.filteredBy[TreeNodeOf[i]] = Null
                   /\ NodeOwnedByOther(S, i, F)
                          => /\ NodeKept(S, tr, i)
                             /\ applyFilterThrows(F, input)
                                    => ~PatternCompiles(input)
    /\ \A F \in LinkFilters : \A input \in SliderInputs :
           LET ll == LinksAfter(F, input)
           IN  \A k \in TargetLinks(F) :
                   /\ (linksList[k].filtered /\ ~ll[k].filtered)
                          => /\ isLinkInbound(F, BoundsOf(input), linksList[k])
                             /\ linksList[k].filteredBy = F.label
                             /\ ll[k].filteredBy = Null
                   /\ LinkOwnedByOther(S, k - 1, F)
                          => /\ ll[k].filtered = linksList[k].filtered
                             /\ ll[k].filteredBy = linksList[k].filteredBy
                             /\ ~applyFilterThrows(F, input)

\* C7 witness: a pass whose pattern compiles meets a node of its layer that
\* passes the predicate and is owned by another filter, and filters in
\* another node of the layer.
C7_Witness ==
    \E F \in NodeFilters : \E input \in PatternInputs :
        /\ PatternCompiles(input)
        /\ \E i, j \in TargetNodes(F) :
               /\ NodeOwnedByOther(S, i, F)
               /\ NodePasses(F, input, i)
               /\ filtered[TreeNodeOf[j]]
               /\ ~TreeAfter(F, input).filtered[TreeNodeOf[j]]

(***************************************************************************)
(* Properties of the explosions.                                           *)
(***************************************************************************)
\* Every link record there is: nv.linksList, then the pending newCrossLinks.
AllLinks == linksList \o newCrossLinks

\* The positions in AllLinks of the crosslink records.
CrossLinkPositions == Len(links_list) + 1 .. Len(AllLinks)

\* C4: for every ordered pair (a, b) of node indices, nv.linksList and the
\* pending newCrossLinks hold at most one crosslink record with source a and
\* target b, whatever explosions, layer choices and filter passes came before.
C4_CrosslinkUniqueness ==
    \A j, k \in CrossLinkPositions :
        (/\ AllLinks[j].source = AllLinks[k].source
         /\ AllLinks[j].target = AllLinks[k].target) => j = k

\* C4 witness: crosslinks exist and a visible node can be exploded whose
\* explosion asks again for a pair that is already built.
C4_Witness ==
    \E elt \in Nodes :
        /\ show[elt]
        /\ CrossLinkPositions # {}
        /\ \E c \in ChildIndices[TreeNodeOf[elt]] :
               \E n \in DOMAIN neighbors[elt] :
                   /\ NodeType(c) # NodeType(n)
                   /\ InCrossLinksDict(S, c, n)

\* The parts of the state an explosion is observed by.
ExplosionView(s) ==
    [show |-> s.show, exploded |-> s.exploded, linksList |-> s.linksList,
     newCrossLinks |-> s.newCrossLinks, neighbors |-> s.neighbors,
     numLinks |-> s.numLinks]

\* C5: explodeNode called twice in a row on the same node leaves the same
\* shown nodes, exploded flags, crosslink records, neighbor maps and
\* nv.numLinks as explodeNode called once.
C5_ExplodeIdempotent ==
    \A elt \in Nodes :
        ExplosionView(explodeNode(explodeNode(S, elt), elt))
            = ExplosionView(explodeNode(S, elt))

\* C5 witness: a visible node with children whose explosion builds
\* crosslinks, crosslinks of earlier explosions being there already.
C5_Witness ==
    \E elt \in Nodes :
        /\ show[elt]
        /\ hasChildren(TreeNodeOf[elt])
        /\ CrossLinkPositions # {}
        /\ explodeNode(S, elt).numLinks > numLinks

\* C8: explodeNode on a node N with children leaves N hidden and exploded,
\* every direct child of N shown and exploded, and the show and exploded
\* flags of every other node as they were.
C8_ExplosionPostcondition ==
    \A elt \in Nodes :
        hasChildren(TreeNodeOf[elt]) =>
            LET t == explodeNode(S, elt)
                kids == ChildIndices[TreeNodeOf[elt]]
            IN  /\ ~t.show[elt]
                /\ t.exploded[elt]
                /\ \A c \in kids : t.show[c] /\ t.exploded[c]
                /\ \A i \in Nodes \ ({elt} \cup kids) :
                       /\ t.show[i] = show[i]
                       /\ t.exploded[i] = exploded[i]

\* C8 witness: an exploded node is hidden, its children are shown and
\* exploded, and a node outside that family is shown.
C8_Witness ==
    \E elt \in Nodes :
        /\ hasChildren(TreeNodeOf[elt])
        /\ ~show[elt]
        /\ exploded[elt]
        /\ \A c \in ChildIndices[TreeNodeOf[elt]] : show[c] /\ exploded[c]
        /\ \E i \in Nodes \ ({elt} \cup ChildIndices[TreeNodeOf[elt]]) :
               show[i] /\ ~exploded[i]

\* The nodes without children.
Leaves == {i \in Nodes : Children(TreeNodeOf[i]) = << >>}

\* C9: explodeNode on a node without children changes no show or exploded
\* flag, creates no crosslink, and leaves nv.numLinks, nv.crossLinksDict and
\* every neighbor map as they were.
C9_ExplodeLeafNoOp ==
    \A elt \in Leaves :
        LET t == explodeNode(S, elt)
        IN  /\ t.show = show
            /\ t.exploded = exploded
            /\ t.linksList = linksList
            /\ t.newCrossLinks = newCrossLinks
            /\ t.numLinks = numLinks
            /\ t.crossLinksDict = crossLinksDict
            /\ t.neighbors = neighbors

\* C9 witness: a leaf is visible, revealed by the explosion of its parent,
\* and has crosslinks.
C9_Witness ==
    \E elt \in Leaves :
        /\ show[elt]
        /\ exploded[elt]
        /\ \E n \in DOMAIN neighbors[elt] : neighbors[elt][n] >= Len(links_list)

\* C10: a call buildCrosslinks_(a, b) adds exactly two records, a->b then
\* b->a, both typed by the layers of the two endpoints; neighbors[a][b] and
\* neighbors[b][a] hold the indices these records get in nv.linksList;
\* nv.numLinks grows by 2; the keys a_b and b_a are in nv.crossLinksDict; and
\* the records, indices and keys of earlier calls stay.
C10_CrosslinkPairCreation ==
    \A a, b \in Nodes :
        a # b =>
            LET t == buildCrosslinks_(S, a, b)
                ll == renderLinks(t).linksList
                types == {NodeType(a) \o "_" \o NodeType(b),
                          NodeType(b) \o "_" \o NodeType(a)}
            IN  /\ Len(t.newCrossLinks) = Len(newCrossLinks) + 2
                /\ SubSeq(t.newCrossLinks, 1, Len(newCrossLinks))
                       = newCrossLinks
                /\ t.linksList = linksList
                /\ t.numLinks = numLinks + 2
                /\ Len(ll) = t.numLinks
                /\ ll[t.neighbors[a][b] + 1].source = a
                /\ ll[t.neighbors[a][b] + 1].target = b
                /\ ll[t.neighbors[b][a] + 1].source = b
                /\ ll[t.neighbors[b][a] + 1].target = a
                /\ t.neighbors[a][b] = numLinks
                /\ t.neighbors[b][a] = numLinks + 1
                /\ ll[t.neighbors[a][b] + 1].type \in types
                /\ ll[t.neighbors[b][a] + 1].type \in types
                /\ \A i \in Nodes : \A n \in DOMAIN neighbors[i] :
                       << i, n >> \notin {<< a, b >>, << b, a >>}
                           => /\ n \in DOMAIN t.neighbors[i]
                              /\ t.neighbors[i][n] = neighbors[i][n]
                /\ t.crossLinksDict
                       = crossLinksDict \cup {<< a, b >>, << b, a >>}

\* C10 witness: an explosion has built a pair of records, the neighbors
\* entries of its endpoints pointing at them and both keys registered.
C10_Witness ==
    \E k \in CrossLinkPositions :
        LET a == AllLinks[k].source
            b == AllLinks[k].target
        IN  /\ k + 1 \in CrossLinkPositions
            /\ AllLinks[k + 1].source = b
            /\ AllLinks[k + 1].target = a
            /\ neighbors[a][b] = k - 1
            /\ neighbors[b][a] = k
            /\ {<< a, b >>, << b, a >>} \subseteq crossLinksDict

\* The crosslink of position k in nv.linksList is hidden: renderLinks keeps
\* it off the display.
CrossLinkHidden(k) ==
    \/ ~show[linksList[k].source]
    \/ ~show[linksList[k].target]
    \/ linksList[k].filtered

ScenarioMetros ==
    {elt \in Nodes :
        /\ NodeType(elt) = "metro"
        /\ Len(Children(TreeNodeOf[elt])) = 1
        /\ Cardinality(DOMAIN InitNeighbors[elt]) = 1
        /\ \A n \in DOMAIN InitNeighbors[elt] : NodeName(n)[1] # NodeName(elt)[1]}

\* C12: with no crosslink built yet, explodeNode on a visible metro with a
\* single child pop and a single neighbor, a node of another metro, reveals
\* the pop and adds exactly one crosslink pair, pop -> neighbor and
\* neighbor -> pop, to nv.linksList; nv.numLinks grows by exactly 2.
C12_ExplosionScenario ==
    \A elt \in ScenarioMetros :
        (show[elt] /\ crossLinksDict = {}) =>
            LET t == explodeNode(S, elt)
                c == Children(TreeNodeOf[elt])[1]
                n == CHOOSE x \in DOMAIN neighbors[elt] : TRUE
            IN  /\ DOMAIN neighbors[elt] = DOMAIN InitNeighbors[elt]
                /\ t.show[c]
                /\ t.numLinks = numLinks + 2
                /\ Len(t.linksList) = Len(linksList) + 2
                /\ t.linksList[numLinks + 1].source = c
                /\ t.linksList[numLinks + 1].target = n
                /\ t.linksList[numLinks + 2].source = n
                /\ t.linksList[numLinks + 2].target = c
                /\ t.crossLinksDict = {<< c, n >>, << n, c >>}

\* C12 witness: such a metro has been exploded as the first explosion: it is
\* hidden, its pop is shown, and the one pair pop <-> neighbor is all the
\* crosslinks there are.
C12_Witness ==
    \E elt \in ScenarioMetros :
        LET c == Children(TreeNodeOf[elt])[1]
            n == CHOOSE x \in DOMAIN InitNeighbors[elt] : TRUE
        IN  /\ exploded[elt]
            /\ ~show[elt]
            /\ show[c]
            /\ crossLinksDict = {<< c, n >>, << n, c >>}
            /\ numLinks = Len(links_list) + 2
            /\ Len(linksList) = numLinks

\* The attribute a qFilter F reads from a link record.
AttributeOf(F, link) ==
    IF F.attribute = "utilization" THEN link.utilization ELSE link.capacity

\* The values isInbound is asked about: every attribute value of the data,
\* the -1 of a crosslink, and one above the widest upper bound.
AttributeValues == -1 .. InitUpper + 1

\* C13: for the bounds updateBounds stored last (or the constructor set),
\* qFilter.isInbound(v) is true exactly when lower <= v <= upper; and in the
\* pass that follows updateBounds, a link of the filter's layer whose
\* attribute equals the new lower or upper bound is not filtered out by the
\* filter.
C13_InclusiveBounds ==
    \A F \in LinkFilters :
        /\ \A v \in AttributeValues :
               qIsInbound(bounds[F.label], v)
                   = (/\ ToNumber(bounds[F.label].lower) <= v
                      /\ v <= ToNumber(bounds[F.label].upper))
        /\ \A input \in SliderInputs :
               LET t == applyFilter(S, F, input)
                   b == t.bounds[F.label]
               IN  /\ b = BoundsOf(input)
                   /\ \A k \in TargetLinks(F) :
                          AttributeOf(F, linksList[k])
                                  \in {ToNumber(b.lower), ToNumber(b.upper)}
                              => ~(/\ t.linksList[k].filtered
                                   /\ t.linksList[k].filteredBy = F.label)

\* C13 witness: a slider has been moved to a range of one value; a link
\* whose attribute is that value is not filtered, and a link whose attribute
\* is above it is filtered by the slider's filter.
C13_Witness ==
    \E F \in LinkFilters :
        /\ ToNumber(bounds[F.label].lower) = ToNumber(bounds[F.label].upper)
        /\ \E j, k \in TargetLinks(F) :
               /\ AttributeOf(F, linksList[j]) = ToNumber(bounds[F.label].upper)
               /\ ~linksList[j].filtered
               /\ AttributeOf(F, linksList[k]) > ToNumber(bounds[F.label].upper)
               /\ linksList[k].filtered
               /\ linksList[k].filteredBy = F.label

\* The pattern texts new RegExp rejects.
InvalidPatterns == {input \in PatternInputs : ~PatternCompiles(input)}

\* C14, as claimed: applying the pattern filter with a text that does not
\* compile completes the pass without an exception, the predicate counting
\* as non-matching, and changes no node's filtered or filteredBy.
C14_InvalidPatternHandled ==
    \A input \in InvalidPatterns :
        LET t == applyFilter(S, routerNameFilter, input)
        IN  /\ ~applyFilterThrows(routerNameFilter, input)
            /\ t.filtered = filtered
            /\ t.filteredBy = filteredBy

\* C14, as the code behaves: the pass throws at its first element, so the
\* only change is the stored pattern; no node's filtered or filteredBy
\* changes, and a later application with a pattern that compiles gives what
\* it would have given without the failed one.
C14_InvalidPatternAborts ==
    \A input \in InvalidPatterns :
        LET t == applyFilter(S, routerNameFilter, input)
        IN  /\ applyFilterThrows(routerNameFilter, input)
            /\ t = [S EXCEPT !.pattern[routerNameFilter.label] = input]
            /\ \A valid \in PatternInputs \ InvalidPatterns :
                   applyFilter(t, routerNameFilter, valid)
                       = applyFilter(S, routerNameFilter, valid)

\* C14 witness: the router name filter holds a pattern that does not
\* compile, typed while routers were filtered out by an earlier pattern.
C14_Witness ==
    /\ pattern[routerNameFilter.label] \in InvalidPatterns
    /\ \E i \in Nodes : filteredBy[TreeNodeOf[i]] = routerNameFilter.label

\* The segments the looked-up names are made of: the segment names of the
\* tree and one that no node carries.
LookupSegments == {<<"A">>, <<"B">>, <<"p">>, <<"x">>, <<"z">>}

MaxSegments == 4

\* address_array.join('_')
RECURSIVE Join(_)
Join(address_array) ==
    IF Len(address_array) = 1 THEN address_array[1]
    ELSE address_array[1] \o << "_" >> \o Join(Tail(address_array))

\* Every name of 1 to MaxSegments segments.
LookupNames ==
    UNION {{Join(a) : a \in [1 .. n -> LookupSegments]} : n \in 1 .. MaxSegments}

\* How a call of NodesTree.prototype.getNodeByName ends: "returns" (a node
\* or undefined), "TypeError" when .children is read from undefined or a key
\* is read from the null children of a leaf, "alert" in the default case,
\* which returns undefined after alert('Incorrect nodeName').
getNodeByNameOutcome(nodeName) ==
    LET address_array == Split(nodeName, "_")
        Reads(p) == p # Undefined /\ hasChildren(p)
        first == ChildByKey(NoIndex, address_array[1])
        second == ChildByKey(first, address_array[2])
    IN  CASE Len(address_array) = 1 ->
               IF Reads(NoIndex) THEN "returns" ELSE "TypeError"
          [] Len(address_array) = 2 ->
               IF Reads(NoIndex) /\ Reads(first)
               THEN "returns" ELSE "TypeError"
          [] Len(address_array) = 3 ->
               IF Reads(NoIndex) /\ Reads(first) /\ Reads(second)
               THEN "returns" ELSE "TypeError"
          [] OTHER -> "alert"

\* A call of getNodeByName in state s: what it returns, how it ends, and the
\* state it leaves.
Lookup(s, nodeName) ==
    [value |-> getNodeByName(nodeName),
     outcome |-> getNodeByNameOutcome(nodeName),
     state |-> s]

\* C15, as claimed: getNodeByName on a name of more than 3 segments, or on
\* a name with a segment absent at some level of the tree, ends in an error
\* raised to its caller and leaves every node's state as it was.
C15_LookupFailureSurfaced ==
    \A nodeName \in LookupNames :
        Lookup(S, nodeName).value = Undefined
            => /\ Lookup(S, nodeName).outcome = "TypeError"
               /\ Lookup(S, nodeName).state = S

\* How the lookups of LookupNames end, by the place of the absent segment.
LookupOutcomes ==
    \A nodeName \in LookupNames :
        LET address_array == Split(nodeName, "_")
            n == Len(address_array)
            front == IF n = 1 THEN NoIndex
                     ELSE getNodeByName(Join(SubSeq(address_array, 1, n - 1)))
        IN  /\ Join(address_array) = nodeName
            /\ n > 3 => /\ getNodeByNameOutcome(nodeName) = "alert"
                        /\ getNodeByName(nodeName) = Undefined
            /\ (n <= 3 /\ front # Undefined /\ hasChildren(front))
                   => getNodeByNameOutcome(nodeName) = "returns"
            /\ (n <= 3 /\ (front = Undefined \/ ~hasChildren(front)))
                   => /\ getNodeByNameOutcome(nodeName) = "TypeError"
                      /\ getNodeByName(nodeName) = Undefined

\* C15, as the code behaves: a name of more than 3 segments ends in an alert
\* and the return of undefined; a name whose last segment alone is absent
\* returns undefined with no error; only a name with an earlier segment
\* absent (or below a leaf) ends in a TypeError.  No lookup writes to a node.
C15_LookupFailureOutcomes ==
    /\ LookupOutcomes
    /\ \A nodeName \in LookupNames : Lookup(S, nodeName).state = S

\* C15 witness: a lookup of a name whose last segment is absent returns
\* undefined, and a lookup of a name of 4 segments ends in the alert, while
\* nodes are filtered out.
C15_Witness ==
    /\ \E nodeName \in LookupNames :
           /\ Len(Split(nodeName, "_")) <= 3
           /\ getNodeByName(nodeName) = Undefined
           /\ getNodeByNameOutcome(nodeName) = "returns"
    /\ \E nodeName \in LookupNames : getNodeByNameOutcome(nodeName) = "alert"
    /\ \E i \in Nodes : filtered[TreeNodeOf[i]]

\* The values of the children dictionary of tree node p.
DictChildren(p) ==
    {ChildByKey(p, TreeNodeName(Children(p)[k])) : k \in 1 .. Len(Children(p))}

\* The walk of the tree below node p, whose path is named prefix: the pairs
\* << node, segment names of its path joined with '_' >>.
RECURSIVE WalkFrom(_, _)
WalkFrom(p, prefix) ==
    UNION {LET path == IF p = NoIndex THEN TreeNodeName(c)
                       ELSE prefix \o << "_" >> \o TreeNodeName(c)
           IN  {<< c, path >>} \cup WalkFrom(c, path) : c \in DictChildren(p)}

\* The walk of the whole tree from nv.nodesTree.root.
TreeWalk == WalkFrom(NoIndex, << >>)

\* C16: for every node reached by walking the tree from the root,
\* getNodeByName on the '_'-joined segment names of its path returns that
\* node, with the state that node carries; and getNodeByIndex(i) returns the
\* node of index i for every list element i whose nodeName is such a path.
C16_NameRoundTrip ==
    /\ \A w \in TreeWalk :
           /\ getNodeByName(w[2]) = w[1]
           /\ filtered[getNodeByName(w[2])] = filtered[w[1]]
           /\ filteredBy[getNodeByName(w[2])] = filteredBy[w[1]]
    /\ \A i \in Nodes :
           (\E w \in TreeWalk : w[2] = NodeName(i)) => getNodeByIndex(i) = i

\* C16 witness: the walk reaches every node of the list, names of 1, 2 and 3
\* segments among them, and a router that the lookup of its path returns is
\* filtered out.
C16_Witness ==
    /\ {w[1] : w \in TreeWalk} = Nodes
    /\ {Len(Split(w[2], "_")) : w \in TreeWalk} = {1, 2, 3}
    /\ \A i \in Nodes : \E w \in TreeWalk : w[2] = NodeName(i)
    /\ \E w \in TreeWalk :
           /\ Len(Split(w[2], "_")) = 3
           /\ filtered[getNodeByName(w[2])]
           /\ filteredBy[getNodeByName(w[2])] # Null

\* The depth of the hierarchy: metro, pop, router.
HierarchyDepth == 3

\* The level of a node: 1 for a metro, HierarchyDepth for a router.
Level(i) == Len(Split(NodeName(i), "_"))

\* The largest number of a non-empty finite set of numbers.
Max(D) == CHOOSE d \in D : \A e \in D : e <= d

\* The deepest nesting of calls that buildUpCrosslinks(mainIndex,
\* neighborIndex), itself at nesting depth, reaches in state s; the count
\* stops above HierarchyDepth.
RECURSIVE buildUpDepth(_, _, _, _)
buildUpDepth(s, mainIndex, neighborIndex, depth) ==
    LET isSameType == NodeType(mainIndex) = NodeType(neighborIndex)
    IN  IF depth > HierarchyDepth THEN depth
        ELSE IF /\ ~InCrossLinksDict(s, mainIndex, neighborIndex)
                /\ ~isSameType
                /\ ParentOf[TreeNodeOf[neighborIndex]] # NoIndex
        THEN buildUpDepth(buildCrosslinks_(s, mainIndex, neighborIndex),
                          mainIndex, ParentOf[TreeNodeOf[neighborIndex]],
                          depth + 1)
        ELSE depth

\* The same for buildDownCrosslinks, which calls itself for every child of
\* a neighbor that is not shown.
RECURSIVE buildDownDepth(_, _, _, _)
buildDownDepth(s, mainIndex, neighborIndex, depth) ==
    LET isSameType == NodeType(mainIndex) = NodeType(neighborIndex)
        kids == Children(TreeNodeOf[neighborIndex])
    IN  IF depth > HierarchyDepth THEN depth
        ELSE IF /\ s.show[neighborIndex]
                /\ ~InCrossLinksDict(s, mainIndex, neighborIndex)
                /\ ~isSameType
        THEN depth
        ELSE IF ~s.show[neighborIndex]
        THEN Max({depth} \cup {buildDownDepth(s, mainIndex, kids[k], depth + 1) :
                                  k \in 1 .. Len(kids)})
        ELSE depth

\* The same for filterOutRecursive, which calls itself for every child no
\* filter owns.
RECURSIVE filterOutDepth(_, _, _, _)
filterOutDepth(tr, node, label, depth) ==
    LET kids == Children(node)
    IN  IF depth > HierarchyDepth THEN depth
        ELSE Max({depth} \cup
                 {filterOutDepth(FilterOutAndMark(tr, kids[k], label),
                                 kids[k], label, depth + 1) :
                      k \in {j \in 1 .. Len(kids) :
                                tr.filteredBy[kids[j]] = Null}})

\* The same for filterInRecursive, which calls itself for every child the
\* filter owns.
RECURSIVE filterInDepth(_, _, _, _)
filterInDepth(tr, node, label, depth) ==
    LET kids == Children(node)
    IN  IF depth > HierarchyDepth THEN depth
        ELSE Max({depth} \cup
                 {filterInDepth(FilterInAndUnmark(tr, kids[k]),
                                kids[k], label, depth + 1) :
                      k \in {j \in 1 .. Len(kids) :
                                tr.filteredBy[kids[j]] = label}})

\* C17: in every state, for every pair of arguments, the recursion of
\* buildUpCrosslinks nests no deeper than the level of the neighbor, that of
\* buildDownCrosslinks no deeper than the levels from the neighbor down to
\* the routers, and those of filterOutRecursive and filterInRecursive no
\* deeper than the levels from the node down; so none nests deeper than
\* HierarchyDepth.  The loops of explodeNode run over the finite children and
\* neighbors of the node, and the loops of the filterNodes and filterLinks
\* passes over a window of the finite sorted snapshot.
C17_RecursionBounded ==
    /\ \A mainIndex, neighborIndex \in Nodes :
           /\ buildUpDepth(S, mainIndex, neighborIndex, 1)
                  <= Level(neighborIndex)
           /\ buildDownDepth(S, mainIndex, neighborIndex, 1)
                  <= HierarchyDepth - Level(neighborIndex) + 1
    /\ \A node \in Nodes : \A F \in NodeFilters :
           LET tr == [filtered |-> filtered, filteredBy |-> filteredBy]
           IN  /\ filterOutDepth(tr, node, F.label, 1)
                      <= HierarchyDepth - Level(node) + 1
               /\ filterInDepth(tr, node, F.label, 1)
                      <= HierarchyDepth - Level(node) + 1
    /\ \A i \in Nodes : Level(i) \in 1 .. HierarchyDepth
    /\ \A elt \in Nodes :
           /\ Len(Children(TreeNodeOf[elt])) <= numNodes
           /\ Cardinality(DOMAIN neighbors[elt]) <= numNodes
    /\ \A F \in NodeFilters :
           Len(getSubArrayOfSortedNodes(F.layer)) <= numNodes
    /\ \A F \in LinkFilters :
           Len(getSubArrayOfSortedLinks(linksList, numLinks,
                                        layer_sorted_links,
                                        layerSortedLinksLength, F.layer))
               <= numLinks

\* C17 witness: a node has been exploded while a metro among its neighbors
\* was hidden, so that buildDownCrosslinks for a revealed child descended
\* from that metro through its pops to its routers: HierarchyDepth nested
\* calls.
C17_Witness ==
    \E elt \in Nodes :
        /\ exploded[elt]
        /\ ~show[elt]
        /\ \E c \in ChildIndices[TreeNodeOf[elt]] :
               \E n \in DOMAIN neighbors[elt] :
                   /\ show[c]
                   /\ ~show[n]
                   /\ InCrossLinksDict(S, c, n)
                   /\ buildDownDepth(S, c, n, 1) = HierarchyDepth

\* The neighbor and its ancestors, from the neighbor up to its metro.
RECURSIVE Ancestry(_)
Ancestry(n) ==
    IF ParentOf[TreeNodeOf[n]] = NoIndex THEN << n >>
    ELSE << n >> \o Ancestry(ParentOf[TreeNodeOf[n]])

\* The number of leading nodes of Ancestry(n) each of which differs in layer
\* type from node a and has no crosslink a -> node registered in state s.
UpReach(s, a, n) ==
    LET chain == Ancestry(n)
        Open(j) == /\ NodeType(a) # NodeType(chain[j])
                   /\ << a, chain[j] >> \notin s.crossLinksDict
    IN  Max({k \in 0 .. Len(chain) : \A j \in 1 .. k : Open(j)})

\* C18: buildUpCrosslinks(child, neighbor) builds one crosslink pair with
\* the neighbor, then with its parent, and so on upward, for as long as the
\* node reached differs in layer type from the child and has no crosslink
\* with the child registered; it stops at the metro below the root, at a node
\* of the child's own type, or at the first node already crosslinked with
\* the child, and builds nothing else.
C18_BuildUpCrosslinks ==
    \A child, neighbor \in Nodes :
        LET t == buildUpCrosslinks(S, child, neighbor)
            chain == Ancestry(neighbor)
            k == UpReach(S, child, neighbor)
        IN  /\ t.crossLinksDict
                   = crossLinksDict
                       \cup {<< child, chain[j] >> : j \in 1 .. k}
                       \cup {<< chain[j], child >> : j \in 1 .. k}
            /\ t.numLinks = numLinks + 2 * k
            /\ Len(t.newCrossLinks) = Len(newCrossLinks) + 2 * k
            /\ \A j \in 1 .. k :
                   LET rec == t.newCrossLinks[Len(newCrossLinks) + 2 * j - 1]
                       back == t.newCrossLinks[Len(newCrossLinks) + 2 * j]
                   IN  /\ rec.source = child /\ rec.target = chain[j]
                       /\ back.source = chain[j] /\ back.target = child
            /\ k < Len(chain) =>
                   \/ NodeType(chain[k + 1]) = NodeType(child)
                   \/ << child, chain[k + 1] >> \in crossLinksDict
            /\ t.show = show
            /\ t.exploded = exploded
            /\ t.linksList = linksList

\* C18 witness: an explosion has crosslinked a revealed router with a pop
\* and, one step up, with the metro of that pop; and of another pair of
\* nodes the climb would stop at once on the crosslink they have.
C18_Witness ==
    \E child, neighbor \in Nodes :
        /\ show[child]
        /\ exploded[child]
        /\ Len(Ancestry(neighbor)) = 2
        /\ \A j \in 1 .. 2 :
               /\ NodeType(Ancestry(neighbor)[j]) # NodeType(child)
               /\ InCrossLinksDict(S, child, Ancestry(neighbor)[j])
        /\ UpReach(S, child, neighbor) = 0

\* The nodes buildDownCrosslinks stops at below (or at) node n in state s:
\* n itself when it is shown, else the nodes its children stop at.
RECURSIVE Frontier(_, _)
Frontier(s, n) ==
    IF s.show[n] THEN {n}
    ELSE UNION {Frontier(s, c) : c \in ChildIndices[TreeNodeOf[n]]}

\* The nodes of the subtree of n, n included.
RECURSIVE Subtree(_)
Subtree(n) == {n} \cup UNION {Subtree(c) : c \in ChildIndices[TreeNodeOf[n]]}

\* The crosslink partners buildDownCrosslinks(child, n) finds in state s.
DownPartners(s, child, n) ==
    {d \in Frontier(s, n) :
        /\ NodeType(d) # NodeType(child)
        /\ << child, d >> \notin s.crossLinksDict}

\* C19: buildDownCrosslinks(child, neighbor) builds exactly one pair, with
\* the neighbor, when the neighbor is shown, of another layer type and not
\* yet crosslinked with the child; builds nothing when the neighbor is shown
\* otherwise; and when the neighbor is not shown builds one pair with each
\* shown node of another type, not yet crosslinked with the child, that is
\* reached from the neighbor through nodes that are not shown, and with no
\* node that is hidden or lies below a shown node.
C19_BuildDownCrosslinks ==
    \A child, neighbor \in Nodes :
        LET t == buildDownCrosslinks(S, child, neighbor)
            partners == DownPartners(S, child, neighbor)
            added == {<< t.newCrossLinks[j].source, t.newCrossLinks[j].target >> :
                         j \in Len(newCrossLinks) + 1 .. Len(t.newCrossLinks)}
        IN  /\ t.crossLinksDict
                   = crossLinksDict \cup {<< child, d >> : d \in partners}
                                    \cup {<< d, child >> : d \in partners}
            /\ added = {<< child, d >> : d \in partners}
                           \cup {<< d, child >> : d \in partners}
            /\ t.numLinks = numLinks + 2 * Cardinality(partners)
            /\ Len(t.newCrossLinks)
                   = Len(newCrossLinks) + 2 * Cardinality(partners)
            /\ show[neighbor] => partners \subseteq {neighbor}
            /\ (/\ show[neighbor]
                /\ NodeType(neighbor) # NodeType(child)
                /\ ~InCrossLinksDict(S, child, neighbor))
                   => partners = {neighbor}
            /\ \A d \in partners :
                   /\ show[d]
                   /\ d \in Subtree(neighbor)
                   /\ \A e \in Subtree(neighbor) \ {d} :
                          d \in Subtree(e) => ~show[e]
            /\ t.show = show
            /\ t.exploded = exploded
            /\ t.linksList = linksList

\* C19 witness: an explosion has crosslinked a revealed child with a shown
\* node of another type that lies strictly below a hidden neighbor of the
\* exploded node, while a shown node lies below that partner.
C19_Witness ==
    \E elt \in Nodes :
        \E child \in ChildIndices[TreeNodeOf[elt]] :
            \E n \in DOMAIN InitNeighbors[elt] :
                \E d \in Subtree(n) \ {n} :
                    /\ exploded[elt]
                    /\ show[child]
                    /\ ~show[n]
                    /\ d \in Frontier(S, n)
                    /\ NodeType(d) # NodeType(child)
                    /\ InCrossLinksDict(S, child, d)

\* The link types of two different layers.
MixedTypes ==
    {a \o "_" \o b : << a, b >> \in {p \in Layers \X Layers : p[1] # p[2]}}

\* C20: every crosslink record, in nv.linksList or still pending, connects
\* two nodes of different layer types, is typed by the two layers (the
\* record back carries the type of the record forth), and its type has a
\* layer order strictly between that of router and that of metro.
C20_CrosslinksMixedLayers ==
    \A k \in CrossLinkPositions :
        LET link == AllLinks[k]
        IN  /\ NodeType(link.source) # NodeType(link.target)
            /\ link.type \in {NodeType(link.source) \o "_" \o NodeType(link.target),
                              NodeType(link.target) \o "_" \o NodeType(link.source)}
            /\ link.type \in MixedTypes
            /\ link.type \in DOMAIN layerOrder
            /\ layerOrder[link.type] > layerOrder["router"]
            /\ layerOrder[link.type] < layerOrder["metro"]

\* C20 witness: crosslinks of every mixed layer order exist, and a revealed node
\* has a neighbor of its own layer type among the neighbors of its exploded
\* parent, with which no crosslink was built.
C20_Witness ==
    /\ {layerOrder[AllLinks[k].type] : k \in CrossLinkPositions}
           = {layerOrder[t] : t \in MixedTypes}
    /\ \E elt \in Nodes :
           \E child \in ChildIndices[TreeNodeOf[elt]] :
               \E n \in DOMAIN neighbors[elt] :
                   /\ exploded[elt]
                   /\ show[child]
                   /\ n # child
                   /\ NodeType(n) = NodeType(child)
                   /\ ~InCrossLinksDict(S, child, n)

\* The filtered and filteredBy values of the tree nodes.
Tree == [filtered |-> filtered, filteredBy |-> filteredBy]

\* The descendants of tree node n.
Descendants(n) == Subtree(n) \ {n}

\* C21: after filterOutRecursive(node, F), every descendant of node that no
\* filter owned before the call is filtered and owned by F, and every
\* descendant that another filter owned has the filtered and filteredBy it
\* had; node itself is not written.
C21_PropagateFilterOut ==
    \A node \in Nodes : \A F \in NodeFilters :
        LET tr == filterOutRecursive(Tree, node, F.label)
        IN  /\ \A d \in Descendants(node) :
                   /\ filteredBy[d] = Null
                          => tr.filtered[d] /\ tr.filteredBy[d] = F.label
                   /\ filteredBy[d] \notin {Null, F.label}
                          => /\ tr.filtered[d] = filtered[d]
                             /\ tr.filteredBy[d] = filteredBy[d]
            /\ \A i \in Nodes \ Descendants(node) :
                   /\ tr.filtered[i] = filtered[i]
                   /\ tr.filteredBy[i] = filteredBy[i]

\* C21 witness: a pop is filtered out and owned by the pop filter, whose
\* filterOutRecursive took the router below it that no filter owned and left
\* the router that the router filter owns.
C21_Witness ==
    \E node \in Nodes :
        /\ filtered[node]
        /\ filteredBy[node] = popNameFilter.label
        /\ \E d, e \in Descendants(node) :
               /\ filtered[d] /\ filteredBy[d] = popNameFilter.label
               /\ filtered[e] /\ filteredBy[e] = routerNameFilter.label

\* A pattern filter for each layer of the tree: the router filter of nv.init
\* and two more registered through FilterGroup.addNodeFilter.
TreeFilters == {routerNameFilter, popNameFilter, metroNameFilter}

\* The texts typed into the box of each of them: the empty pattern, and a
\* letter that some routers, one pop, and no metro carry.
TreeInputs ==
    [layer \in Layers |->
        CASE layer = "router" -> {<< >>, <<"y">>}
          [] layer = "pop" -> {<< >>, <<"q">>}
          [] OTHER -> {<< >>, <<"x">>}]

\* Enter in the text box of the pattern filter F of some layer.
ApplyTreeFilter(F, input) ==
    /\ F \in TreeFilters
    /\ Becomes(applyFilter(S, F, input))

NextTree ==
    \/ \E F \in TreeFilters : \E input \in TreeInputs[F.layer] :
           ApplyTreeFilter(F, input)
    \/ \E layer \in Layers : SetCurrentLayer(layer)

\* Pattern filters on all three layers of the tree, and the layer choice.
SpecTree == Init /\ [][NextTree]_vars

\* The nodes filterInRecursive(node, F) reaches: the children of node that F
\* owns, and below each of them the nodes it reaches.
RECURSIVE OwnedChain(_, _, _)
OwnedChain(tr, node, label) ==
    UNION {{c} \cup OwnedChain(tr, c, label) :
               c \in {k \in ChildIndices[node] : tr.filteredBy[k] = label}}

\* The calls of filterInRecursive a pass of F makes: on a node of F's layer
\* that is filtered and owned by F, once it is filtered in and unmarked.
FilterInCalls(F) ==
    {node \in Nodes :
        /\ NodeType(node) = F.layer
        /\ filtered[node]
        /\ filteredBy[node] = F.label}

\* C22, as claimed: after filterInRecursive(node, F), every descendant of
\* node that F owned before the call is unfiltered and unowned, and every
\* other descendant has the filtered and filteredBy it had.
C22_PropagateFilterIn ==
    \A F \in TreeFilters : \A node \in FilterInCalls(F) :
        LET tr == filterInRecursive(FilterInAndUnmark(Tree, node), node,
                                    F.label)
        IN  \A d \in Descendants(node) :
                /\ filteredBy[d] = F.label
                       => ~tr.filtered[d] /\ tr.filteredBy[d] = Null
                /\ filteredBy[d] # F.label
                       => /\ tr.filtered[d] = filtered[d]
                          /\ tr.filteredBy[d] = filteredBy[d]

\* C22, as the code behaves: filterInRecursive(node, F) releases the
\* descendants it reaches through children that F owns, and leaves every
\* other node as it was, a descendant that F owns below a node that F does
\* not own included.
C22_PropagateFilterInReached ==
    \A F \in TreeFilters : \A node \in Nodes :
        LET tr == filterInRecursive(Tree, node, F.label)
        IN  /\ \A d \in OwnedChain(Tree, node, F.label) :
                   ~tr.filtered[d] /\ tr.filteredBy[d] = Null
            /\ \A i \in Nodes \ OwnedChain(Tree, node, F.label) :
                   /\ tr.filtered[i] = filtered[i]
                   /\ tr.filteredBy[i] = filteredBy[i]

\* C22 witness: a metro is filtered out and owned by the metro filter, one
\* of its pops is owned by the pop filter, and a router below that pop is
\* owned by the metro filter.
C22_Witness ==
    \E node \in FilterInCalls(metroNameFilter) :
        \E c \in ChildIndices[node] : \E d \in ChildIndices[c] :
            /\ filteredBy[c] = popNameFilter.label
            /\ filteredBy[d] = metroNameFilter.label
            /\ filtered[d]

(***************************************************************************)
(* The filter window.                                                      *)
(***************************************************************************)
\* seq in the opposite order.
RECURSIVE Reverse(_)
Reverse(seq) ==
    IF seq = << >> THEN << >> ELSE Reverse(Tail(seq)) \o << Head(seq) >>

\* The elements of array of layer order k as a sort may leave them: in array
\* order, or (reversed) in the opposite order.
TieGroup(array, typeOf, k, reversed) ==
    IF reversed THEN Reverse(OfOrder(array, typeOf, k, 1))
    ELSE OfOrder(array, typeOf, k, 1)

\* array.concat().sort(FilterGroup.sortByLayerFunction) in an engine whose
\* sort is not stable (ECMAScript 5.1, 15.4.4.11: "The sort is not
\* necessarily stable"): ascending layer order, the elements the comparison
\* function calls equal in an order of the engine's choosing; two of these
\* orders are kept, the array order and its opposite.
SortOutcome(array, typeOf, reversed) ==
    TieGroup(array, typeOf, 0, reversed) \o TieGroup(array, typeOf, 1, reversed)
        \o TieGroup(array, typeOf, 2, reversed)
        \o TieGroup(array, typeOf, 3, reversed)
        \o TieGroup(array, typeOf, 4, reversed)

\* The state in which getSubArrayOfSortedLinks has sorted the links into
\* sorted, when the links count has grown.
SnapshotTaken(s, sorted) ==
    IF s.numLinks > s.layerSortedLinksLength
    THEN [s EXCEPT !.layer_sorted_links = sorted,
                   !.layerSortedLinksLength = s.numLinks]
    ELSE s

\* A move of the slider of link filter F to input, the sort of the pass
\* (if it sorts) leaving equal elements in array order or reversed.
ApplyLinkFilterSorted(F, input, reversed) ==
    /\ F \in LinkFilters
    /\ Becomes(applyFilter(
                 SnapshotTaken(S, SortOutcome([i \in 1 .. Len(linksList) |-> i - 1],
                                              LinkTypes(linksList), reversed)),
                 F, input))

NextSort ==
    \/ \E elt \in Nodes : ExplodeNode(elt, MaxCrossPairsSort)
    \/ \E layer \in Layers : SetCurrentLayer(layer)
    \/ \E input \in SliderInputs, reversed \in BOOLEAN :
          ApplyLinkFilterSorted(utilFilter, input, reversed)

\* Explosions and the utilization slider, the order of equal elements in the
\* sorted snapshot left to the engine.
SpecSort == Init /\ [][NextSort]_vars

\* The elements (indices) of the sequence array.
Elements(array) == {array[i] : i \in 1 .. Len(array)}

\* The window holds exactly the elements of array whose layer order is at
\* least that of layer.
WindowExact(window, array, typeOf, layer) ==
    Elements(window) =
        {e \in Elements(array) : layerOrder[typeOf[e]] >= layerOrder[layer]}

\* The window starts at an element of the layer.
WindowStartsAtLayer(window, typeOf, layer) ==
    /\ window # << >>
    /\ typeOf[window[1]] = layer

\* The window is in non-decreasing layer order.
WindowAscending(window, typeOf) ==
    \A i, j \in 1 .. Len(window) :
        i <= j => layerOrder[typeOf[window[i]]] <= layerOrder[typeOf[window[j]]]

\* The position of the first element of the layer in array (0: none).
FirstOfLayer(array, typeOf, layer) ==
    LET hits == {i \in 1 .. Len(array) : typeOf[array[i]] = layer}
    IN  IF hits = {} THEN 0 ELSE CHOOSE i \in hits : \A j \in hits : i <= j

\* The links window of a pass at the layer, over the snapshot in place.
LinksWindow(layer) ==
    getSubArray(layer_sorted_links, LinkTypes(linksList), layer)

LinkRecords(s) == 0 .. (Len(s.linksList) + Len(s.newCrossLinks) - 1)

\* The snapshot of state t holds every link record of state s, each once.
SnapshotHoldsAll(s, t) ==
    /\ Elements(t.layer_sorted_links) = LinkRecords(s)
    /\ Len(t.layer_sorted_links) = Cardinality(LinkRecords(s))

\* C24: at every link-filter pass the snapshot the pass scans holds every
\* link record that exists, the crosslinks of all earlier explosions
\* included (every record is in nv.linksList and counted in nv.numLinks
\* when the pass starts); the pass sorts the links again exactly when
\* nv.numLinks exceeds layerSortedLinksLength, and otherwise keeps the
\* snapshot it has.
C24_SnapshotFresh ==
    /\ newCrossLinks = << >>
    /\ numLinks = Len(linksList)
    /\ \A F \in LinkFilters, input \in SliderInputs :
          LET after == applyFilter(S, F, input)
          IN  /\ SnapshotHoldsAll(S, after)
              /\ after.layerSortedLinksLength = numLinks
              /\ LinkRecords(after) = LinkRecords(S)
              /\ IF numLinks > layerSortedLinksLength
                 THEN after.layer_sorted_links =
                          SortByLayer([i \in 1 .. Len(linksList) |-> i - 1],
                                      LinkTypes(linksList))
                 ELSE /\ after.layer_sorted_links = layer_sorted_links
                      /\ after.layerSortedLinksLength = layerSortedLinksLength
    /\ \A reversed \in BOOLEAN :
          SnapshotHoldsAll(S, SnapshotTaken(S,
              SortOutcome([i \in 1 .. Len(linksList) |-> i - 1],
                          LinkTypes(linksList), reversed)))

\* A pass has sorted the crosslinks of one explosion into the snapshot, and
\* a later explosion has added crosslinks the snapshot does not hold yet.
C24_Witness ==
    /\ layerSortedLinksLength > Len(links_list)
    /\ numLinks > layerSortedLinksLength
    /\ Len(linksList) = numLinks

(***************************************************************************)
(* The children of a link.                                                 *)
(***************************************************************************)
\* The node and its direct children (list indices).
WithChildren(n) == {n} \cup ChildIndices[TreeNodeOf[n]]

\* The children of the children of node n (list indices).
Grandchildren(n) ==
    UNION {ChildIndices[TreeNodeOf[c]] : c \in ChildIndices[TreeNodeOf[n]]}

C26_SetCurrentLayerResets ==
    \A layer \in Layers :
        LET after == setCurrentLayer(S, layer)
        IN  /\ after.currentLayer = layer
            /\ \A i \in Nodes :
                  /\ ~after.exploded[i]
                  /\ after.show[i] <=>
                        (NodeType(i) = layer /\ ~filtered[TreeNodeOf[i]])
            /\ after.linksList = linksList
            /\ after.newCrossLinks = newCrossLinks
            /\ after.numLinks = numLinks
            /\ after.crossLinksDict = crossLinksDict
            /\ after.neighbors = neighbors
            /\ after.filtered = filtered
            /\ after.filteredBy = filteredBy

\* Crosslinks exist, a node is exploded and shows outside the current
\* layer, and a node of the current layer is filtered.
C26_Witness ==
    /\ crossLinksDict # {}
    /\ \E i \in Nodes :
          exploded[i] /\ show[i] /\ NodeType(i) # currentLayer
    /\ \E i \in Nodes : NodeType(i) = currentLayer /\ filtered[TreeNodeOf[i]]

(***************************************************************************)
(* The order of the elements a pass goes through.                          *)
(***************************************************************************)
\* Node.children in insertion order or, reversed, in the opposite order.
ChildrenIn(node, reversed) ==
    IF reversed THEN Reverse(Children(node)) ELSE Children(node)

\* filterOutRecursive and filterInRecursive, their for...in loops going
\* through node.children in the order ChildrenIn gives.
RECURSIVE filterOutRecursiveIn(_, _, _, _)
RECURSIVE FilterOutChildrenIn(_, _, _, _, _)
FilterOutChildrenIn(tr, kids, k, label, reversed) ==
    IF k > Len(kids) THEN tr
    ELSE LET c == kids[k]
         IN  FilterOutChildrenIn(
                 IF tr.filteredBy[c] = Null
                 THEN filterOutRecursiveIn(FilterOutAndMark(tr, c, label),
                                           c, label, reversed)
                 ELSE tr,
                 kids, k + 1, label, reversed)

filterOutRecursiveIn(tr, node, label, reversed) ==
    IF hasChildren(node)
    THEN FilterOutChildrenIn(tr, ChildrenIn(node, reversed), 1, label, reversed)
    ELSE tr

RECURSIVE filterInRecursiveIn(_, _, _, _)
RECURSIVE FilterInChildrenIn(_, _, _, _, _)
FilterInChildrenIn(tr, kids, k, label, reversed) ==
    IF k > Len(kids) THEN tr
    ELSE LET c == kids[k]
         IN  FilterInChildrenIn(
                 IF tr.filteredBy[c] = label
                 THEN filterInRecursiveIn(FilterInAndUnmark(tr, c), c, label,
                                          reversed)
                 ELSE tr,
                 kids, k + 1, label, reversed)

filterInRecursiveIn(tr, node, label, reversed) ==
    IF hasChildren(node)
    THEN FilterInChildrenIn(tr, ChildrenIn(node, reversed), 1, label, reversed)
    ELSE tr

\* The loop of Filter.prototype.filterNodes over the window sub_array, the
\* children of each node gone through in the order ChildrenIn gives.
RECURSIVE FilterNodesLoopIn(_, _, _, _, _, _, _, _)
FilterNodesLoopIn(tr, sub_array, i, F, p, incl, nbrs, reversed) ==
    IF i > Len(sub_array) THEN tr
    ELSE
      LET node == TreeNodeOf[sub_array[i]]
      IN  IF NodeType(sub_array[i]) = F.layer
          THEN IF rIsInboundThrows(p) THEN tr
               ELSE FilterNodesLoopIn(
                      IF NodeFilterOutCase(tr, node, F,
                             isNodeInbound(p, incl, node, nbrs))
                      THEN LET marked == FilterOutAndMark(tr, node, F.label)
                           IN  IF hasChildren(node)
                               THEN filterOutRecursiveIn(marked, node, F.label,
                                                         reversed)
                               ELSE marked
                      ELSE IF NodeFilterInCase(tr, node, F,
                                  isNodeInbound(p, incl, node, nbrs))
                      THEN LET unmarked == FilterInAndUnmark(tr, node)
                           IN  IF hasChildren(node)
                               THEN filterInRecursiveIn(unmarked, node, F.label,
                                                        reversed)
                               ELSE unmarked
                      ELSE tr,
                      sub_array, i + 1, F, p, incl, nbrs, reversed)
          ELSE FilterNodesLoopIn(
                 IF ~tr.filtered[node] /\ areChildrenFilteredOut(tr, node)
                 THEN FilterOutAndMark(tr, node, F.label)
                 ELSE IF tr.filtered[node] /\ ~areChildrenFilteredOut(tr, node)
                 THEN FilterInAndUnmark(tr, node)
                 ELSE tr,
                 sub_array, i + 1, F, p, incl, nbrs, reversed)

\* The tree a pass of node filter F with pattern p leaves, the layer-sorted
\* nodes holding equal elements in array order or (ties) reversed, and the
\* children gone through in insertion order or (kids) reversed.
NodePassIn(F, p, ties, kids) ==
    FilterNodesLoopIn(Tree,
        getSubArray(SortOutcome([i \in 1 .. numNodes |-> i - 1], NodeTypes, ties),
                    NodeTypes, F.layer),
        1, F, p, includeNeighbors[F.label], neighbors, kids)

\* A qFilter on the capacity of the pop links, as FilterGroup.addLinkFilter
\* registers it.
popCapFilter == NewFilter("quant", "capacity", "pop")

\* The links a pass of link filter F with bounds b leaves, the sort of the
\* pass leaving equal elements in array order or (ties) reversed.
LinkPassIn(F, b, ties) ==
    FilterLinksLoop(linksList,
        getSubArray(SortOutcome([i \in 1 .. Len(linksList) |-> i - 1],
                                LinkTypes(linksList), ties),
                    LinkTypes(linksList), F.layer),
        1, F, b, neighbors)

\* The node passes leave the same tree whatever the two orders.
NodePassesOrderFree ==
    \A F \in TreeFilters : \A p \in TreeInputs[F.layer] :
        \A ties, kids \in BOOLEAN :
            NodePassIn(F, p, ties, kids) = NodePassIn(F, p, FALSE, FALSE)

\* The passes of link filter F leave the same links whatever the order of
\* equal elements.
LinkPassesOrderFree(F) ==
    \A input \in SliderInputs :
        LinkPassIn(F, BoundsOf(input), TRUE)
            = LinkPassIn(F, BoundsOf(input), FALSE)

C28_FilteredIffOwned ==
    /\ \A n \in Nodes : filtered[n] <=> (filteredBy[n] # Null)
    /\ \A k \in 1 .. Len(linksList) :
          linksList[k].filtered <=> (linksList[k].filteredBy # Null)
    /\ \A k \in 1 .. Len(newCrossLinks) :
          newCrossLinks[k].filtered <=> (newCrossLinks[k].filteredBy # Null)

\* Filtered nodes and links with an owner, unfiltered ones without, among
\* them a crosslink of each kind and nodes of a layer above the routers.
C28_Witness ==
    /\ \E n \in Nodes : NodeType(n) # "router" /\ filtered[n]
    /\ \E n \in Nodes : ~filtered[n]
    /\ \E k, j \in Len(links_list) + 1 .. Len(linksList) :
          linksList[k].filtered /\ ~linksList[j].filtered
    /\ \E k \in 1 .. Len(links_list) :
          linksList[k].type = "router" /\ linksList[k].filtered

(***************************************************************************)
(* The postcondition of one pass.                                          *)
(***************************************************************************)
\* The patterns of PatternInputs that compile: the passes that run to
\* their end.
CompilingInputs == {p \in PatternInputs : PatternCompiles(p)}

\* C29: after a pass of filter F at layer L (one that runs to its end),
\* every unfiltered node or link of layer L satisfies the predicate of F
\* (the pattern or bounds the pass ran with), and every node or link of
\* layer L whose filteredBy is F.label fails it.
C29_PassPostcondition ==
    /\ \A F \in TreeFilters : \A p \in CompilingInputs :
          LET after == applyFilter(S, F, p)
              incl == includeNeighbors[F.label]
          IN  \A i \in Nodes :
                  NodeType(i) = F.layer =>
                      /\ ~after.filtered[TreeNodeOf[i]] =>
                            isNodeInbound(p, incl, TreeNodeOf[i], neighbors)
                      /\ after.filteredBy[TreeNodeOf[i]] = F.label =>
                            ~isNodeInbound(p, incl, TreeNodeOf[i], neighbors)
    /\ \A F \in LinkFilters : \A input \in SliderInputs :
          LET after == applyFilter(S, F, input)
          IN  \A k \in 1 .. Len(after.linksList) :
                  after.linksList[k].type = F.layer =>
                      /\ ~after.linksList[k].filtered =>
                            isLinkInbound(F, BoundsOf(input), after.linksList[k])
                      /\ after.linksList[k].filteredBy = F.label =>
                            ~isLinkInbound(F, BoundsOf(input),
                                           after.linksList[k])

\* A state in which a pass has something to do in each direction: a router
\* link owned by one link filter and one owned by the other, a router owned
\* by the router filter and a pop owned by the pop filter.
C29_Witness ==
    /\ \E k, j \in 1 .. Len(linksList) :
          /\ linksList[k].type = "router"
          /\ linksList[k].filteredBy = utilFilter.label
          /\ linksList[j].type = "router"
          /\ linksList[j].filteredBy = capFilter.label
    /\ \E i, j \in Nodes :
          /\ NodeType(i) = "router" /\ filteredBy[i] = routerNameFilter.label
          /\ NodeType(j) = "pop" /\ filteredBy[j] = popNameFilter.label

(***************************************************************************)
(* The two link filters together.                                          *)
(***************************************************************************)
\* The router link of index k (from 1) is outside the bounds filter F holds
\* in state s.
Excluded(s, F, k) ==
    /\ s.linksList[k].type = F.layer
    /\ ~isLinkInbound(F, s.bounds[F.label], s.linksList[k])

\* C30 (as stated): whatever the applications of router_utilization and
\* router_capacity so far, every router link outside the current bounds of
\* one of the two filters is filtered (bounds other than those of nv.init
\* are those of a filter that has been applied, and the bounds of nv.init
\* exclude no link); and no application of one filter un-hides a link that
\* the current bounds of the other still exclude.
C30_CombinedFilters ==
    /\ \A F \in LinkFilters : \A k \in 1 .. Len(linksList) :
          Excluded(S, F, k) => linksList[k].filtered
    /\ \A F \in LinkFilters : \A input \in SliderInputs :
          LET after == applyFilter(S, F, input)
          IN  \A k \in 1 .. Len(linksList) : \A G \in LinkFilters \ {F} :
                  (linksList[k].filtered /\ Excluded(after, G, k))
                      => after.linksList[k].filtered

\* C30 (what the code gives): after an application of filter F every router
\* link outside the bounds F now holds is filtered, and the links the
\* application un-hides are those F owned; a link the other filter excludes
\* stays hidden only while F does not release it.
C30_CombinedFiltersLastPass ==
    \A F \in LinkFilters : \A input \in SliderInputs :
        LET after == applyFilter(S, F, input)
        IN  \A k \in 1 .. Len(linksList) :
                /\ Excluded(after, F, k) => after.linksList[k].filtered
                /\ (linksList[k].type = F.layer /\ linksList[k].filtered
                        /\ ~after.linksList[k].filtered)
                       => linksList[k].filteredBy = F.label

\* A router link outside the bounds of both filters, hidden and owned by
\* one of them.
C30_Witness ==
    \E k \in 1 .. Len(linksList) :
        /\ \A F \in LinkFilters : Excluded(S, F, k)
        /\ linksList[k].filtered
        /\ linksList[k].filteredBy = utilFilter.label

(***************************************************************************)
(* Passes repeated and undone.                                             *)
(***************************************************************************)
\* The filters of the three node layers and the two link filters, and the
\* texts their input elements can hold.
PassFilters == TreeFilters \cup LinkFilters
PassInputs(F) ==
    IF F \in LinkFilters THEN SliderInputs
    ELSE TreeInputs[F.layer] \cup PatternInputs

\* filtered and filteredBy of every tree node and of every link record of
\* state s.
FilterState(s) ==
    [filtered |-> s.filtered, filteredBy |-> s.filteredBy,
     links |-> [k \in 1 .. Len(s.linksList) |->
                   << s.linksList[k].filtered, s.linksList[k].filteredBy >>]]

\* C31: applying the same filter twice in a row with the same input leaves
\* filtered and filteredBy of every node and link after the second pass as
\* they were after the first.
C31_PassIdempotent ==
    \A F \in PassFilters : \A input \in PassInputs(F) :
        FilterState(applyFilter(applyFilter(S, F, input), F, input))
            = FilterState(applyFilter(S, F, input))

\* Nodes and links owned by different filters are in place: a pass has
\* filter-out, filter-in and ancestor cases.
C31_Witness ==
    /\ \E n \in Nodes : NodeType(n) = "router" /\ filtered[n]
    /\ \E n \in Nodes : NodeType(n) = "router" /\ ~filtered[n]
    /\ \E n \in Nodes : NodeType(n) = "pop" /\ filtered[n]
    /\ \E k, j \in 1 .. Len(linksList) :
          /\ linksList[k].filteredBy = utilFilter.label
          /\ linksList[j].filteredBy = capFilter.label

\* Nothing is filtered in state s.
NothingFiltered(s) ==
    /\ \A n \in Nodes : ~s.filtered[n] /\ s.filteredBy[n] = Null
    /\ \A k \in 1 .. Len(s.linksList) :
          ~s.linksList[k].filtered /\ s.linksList[k].filteredBy = Null

\* The inputs of filter F that every element of its layer satisfies: the
\* empty pattern, the bounds of nv.init.
RelaxingInputs(F) ==
    IF F \in LinkFilters
    THEN {NumToStr(InitLower) \o <<";">> \o NumToStr(InitUpper)}
    ELSE {<< >>}

\* The state after F is applied with input and then with relax.
RoundTrip(F, input, relax) == applyFilter(applyFilter(S, F, input), F, relax)

RECURSIVE Grounded(_, _)
Grounded(k, depth) ==
    \/ linksList[k + 1].type = "router"
    \/ /\ depth > 0
       /\ \E j \in getLinkChildren(linksList, neighbors, linksList[k + 1]) :
              Grounded(j, depth - 1)

Pass(s, F, input) ==
    IF F \in LinkFilters
    THEN FilterGroup_filterLinks(s, F, input)
    ELSE FilterGroup_filterNodes(s, F, input)

\* What identifies the link records: everything but their filter fields.
LinkIdentities(s) ==
    [k \in 1 .. Len(s.linksList) |->
        [s.linksList[k] EXCEPT !.filtered = FALSE, !.filteredBy = Null]]

\* The filter fields of the tree nodes, and those of the link records.
NodeFilterState(s) == << s.filtered, s.filteredBy >>
LinkFilterState(s) == FilterState(s).links

\* C33: a filterNodes or filterLinks pass leaves every node's exploded
\* flag, every neighbor map, nv.crossLinksDict, nv.numLinks and the link
\* records unchanged; a node pass changes no link's filtered/filteredBy
\* and a link pass changes no node's filtered/filteredBy.
C33_PassFrame ==
    \A F \in PassFilters : \A input \in PassInputs(F) :
        LET t == Pass(S, F, input)
        IN  /\ t.exploded = exploded
            /\ t.neighbors = neighbors
            /\ t.crossLinksDict = crossLinksDict
            /\ t.numLinks = numLinks
            /\ LinkIdentities(t) = LinkIdentities(S)
            /\ t.newCrossLinks = newCrossLinks
            /\ F \notin LinkFilters => LinkFilterState(t) = LinkFilterState(S)
            /\ F \in LinkFilters => NodeFilterState(t) = NodeFilterState(S)

\* Reached: with a node exploded and crosslinks built, a node pass and a
\* link pass each change the filter state of their own kind.
C33_Witness ==
    /\ \E i \in Nodes : exploded[i]
    /\ crossLinksDict # {}
    /\ \E F \in NodeFilters : \E input \in PassInputs(F) :
           NodeFilterState(Pass(S, F, input)) # NodeFilterState(S)
    /\ \E F \in LinkFilters : \E input \in PassInputs(F) :
           LinkFilterState(Pass(S, F, input)) # LinkFilterState(S)

(***************************************************************************)
(* C34: an explosion changes no filter state.                              *)
(***************************************************************************)
\* The link records explodeNode on elt adds to nv.linksList.
CreatedBy(s, elt) ==
    LET t == explodeNode(s, elt)
    IN  { t.linksList[k] : k \in Len(s.linksList) + 1 .. Len(t.linksList) }

\* C34: explodeNode leaves filtered/filteredBy of every tree node and of
\* every link record that existed before the call unchanged, and every
\* crosslink record it creates starts with filtered == false and
\* filteredBy == null, whatever filters are in force.
C34_ExplodeFrame ==
    \A elt \in Nodes :
        LET t == explodeNode(S, elt)
        IN  /\ NodeFilterState(t) = NodeFilterState(S)
            /\ Len(t.linksList) >= Len(linksList)
            /\ \A k \in 1 .. Len(linksList) :
                   /\ t.linksList[k].filtered = linksList[k].filtered
                   /\ t.linksList[k].filteredBy = linksList[k].filteredBy
            /\ \A link \in CreatedBy(S, elt) :
                   ~link.filtered /\ link.filteredBy = Null

\* Reached: with a link filtered out, a displayed node is exploded that
\* has a filtered child and an unfiltered one, and crosslinks are created.
C34_Witness ==
    /\ \E k \in 1 .. Len(linksList) : linksList[k].filtered
    /\ \E elt \in Nodes :
           /\ show[elt]
           /\ \E c \in ChildIndices[elt] : filtered[TreeNodeOf[c]]
           /\ \E c \in ChildIndices[elt] : ~filtered[TreeNodeOf[c]]
           /\ CreatedBy(S, elt) # {}

(***************************************************************************)
(* C35: link bookkeeping.                                                  *)
(***************************************************************************)
\* nv.numLinks counts the links of nv.linksList and the pending crosslinks.
Counted(s) == s.numLinks = Len(s.linksList) + Len(s.newCrossLinks)

\* The crosslink records explodeNode on elt has pushed when it reaches
\* renderLinks, in the order of the push.
Pushed(s, elt) ==
    LET after == explodeNode(s, elt).linksList
    IN  SubSeq(after, Len(s.linksList) + 1, Len(after))

\* The states between the calls of buildCrosslinks_ that push the pairs
\* of built, from pair i on, s being the state before that call.
RECURSIVE BuildPoints(_, _, _)
BuildPoints(s, built, i) ==
    IF 2 * i > Len(built) THEN << s >>
    ELSE << s >> \o BuildPoints(buildCrosslinks_(s, built[2 * i - 1].source,
                                                 built[2 * i - 1].target),
                                built, i + 1)

\* What the crosslink builders write.
Bookkeeping(s) ==
    [neighbors |-> s.neighbors, numLinks |-> s.numLinks,
     crossLinksDict |-> s.crossLinksDict]

\* The links of a neighbor map are the links between the two nodes.
NeighborsIndexLinks(s) ==
    \A a \in Nodes : \A b \in DOMAIN s.neighbors[a] :
        /\ s.neighbors[a][b] \in 0 .. Len(s.linksList) - 1
        /\ s.linksList[s.neighbors[a][b] + 1].source = a
        /\ s.linksList[s.neighbors[a][b] + 1].target = b

\* C35: between any two calls of the operations that write them,
\* nv.numLinks equals the length of nv.linksList plus the length of the
\* pending newCrossLinks buffer; after every completed explodeNode or
\* applyFilter nv.numLinks equals the length of nv.linksList; and for
\* every node a and key b of a's neighbor map, nv.linksList[neighbors[a][b]]
\* has source a and target b.
C35_LinkBookkeeping ==
    /\ Counted(S)
    /\ newCrossLinks = << >>
    /\ NeighborsIndexLinks(S)
    /\ \A elt \in Nodes :
           LET t == explodeNode(S, elt)
               built == SubSeq(t.linksList, Len(linksList) + 1,
                               Len(t.linksList))
               points == BuildPoints(S, built, 1)
           IN  /\ \A i \in 1 .. Len(points) : Counted(points[i])
               /\ Len(points) = Len(built) \div 2 + 1
               /\ Bookkeeping(Last(points)) = Bookkeeping(t)
               /\ Last(points).newCrossLinks = built
               /\ t.numLinks = Len(t.linksList)
               /\ NeighborsIndexLinks(t)
    /\ \A F \in PassFilters : \A input \in PassInputs(F) :
           LET passed == Pass(S, F, input)
               t == applyFilter(S, F, input)
           IN  /\ Counted(passed)
               /\ Counted(renderNodes(passed, FALSE))
               /\ t.numLinks = Len(t.linksList)
               /\ NeighborsIndexLinks(t)

\* Reached: crosslinks exist, and a displayed node is exploded whose
\* explosion pushes more than one pair before renderLinks.
C35_Witness ==
    /\ Len(linksList) > Len(links_list)
    /\ \E elt \in Nodes : show[elt] /\ Len(Pushed(S, elt)) > 2

(***************************************************************************)
(* C36: no filtered node is shown.                                         *)
(***************************************************************************)
\* The displayed nodes whose tree node is filtered out.
FilteredShown(s) ==
    { i \in Nodes : s.filtered[TreeNodeOf[i]] /\ s.show[i] }

\* C36: after every completed user action (explodeNode, applyFilter,
\* setCurrentLayer) no node whose tree node has filtered == true has
\* show == true.
C36_NoFilteredShown == FilteredShown(S) = {}

\* C36, for the actions that end in renderNodes: applyFilter, unless the
\* pass ends in an exception, and setCurrentLayer leave no filtered node
\* shown; explodeNode on elt adds to the filtered nodes shown exactly the
\* filtered children of elt.
C36_NoFilteredShownByRender ==
    /\ \A F \in PassFilters : \A input \in PassInputs(F) :
           ~applyFilterThrows(F, input)
               => FilteredShown(applyFilter(S, F, input)) = {}
    /\ \A layer \in Layers : FilteredShown(setCurrentLayer(S, layer)) = {}
    /\ \A elt \in Nodes :
           FilteredShown(explodeNode(S, elt))
               = (FilteredShown(S) \ {e \in {elt} : ChildIndices[e] # {}})
                     \cup { c \in ChildIndices[elt] : filtered[TreeNodeOf[c]] }

\* Reached: an exploded node has a child that is filtered out and shown.
C36_Witness ==
    \E elt \in Nodes :
        /\ exploded[elt] /\ ~show[elt]
        /\ \E c \in ChildIndices[elt] : filtered[TreeNodeOf[c]] /\ show[c]

(***************************************************************************)
(* C37: visibility is restored when a filter is relaxed.                   *)
(***************************************************************************)
\* Node i is displayed, the applyFilter of F1 with in1 filters it out and
\* hides it, and the applyFilter of F2 with in2 that follows filters it
\* back in.
HiddenThenFilteredIn(s, i, F1, in1, F2, in2) ==
    LET hidden == applyFilter(s, F1, in1)
        relaxed == applyFilter(hidden, F2, in2)
    IN  /\ s.show[i] /\ ~s.filtered[TreeNodeOf[i]]
        /\ hidden.filtered[TreeNodeOf[i]] /\ ~hidden.show[i]
        /\ ~relaxed.filtered[TreeNodeOf[i]]

\* The show flag of node i after the second of the two actions.
ShownAfter(s, i, F1, in1, F2, in2) ==
    applyFilter(applyFilter(s, F1, in1), F2, in2).show[i]

\* C37: a node that is shown, on the current layer or revealed by an
\* explosion, then hidden by an applyFilter that filters it out, and then
\* filtered back in by the next applyFilter, has show == true again after
\* the renderNodes of the second action.
C37_VisibilityRestored ==
    \A i \in Nodes : \A F1 \in TreeFilters : \A in1 \in PassInputs(F1) :
        \A F2 \in TreeFilters : \A in2 \in PassInputs(F2) :
            HiddenThenFilteredIn(S, i, F1, in1, F2, in2)
                => ShownAfter(S, i, F1, in1, F2, in2)

\* C37, by the exploded flag: the node is shown again when it is not
\* marked exploded, and stays hidden when it is.
C37_VisibilityRestoredUnexploded ==
    \A i \in Nodes : \A F1 \in TreeFilters : \A in1 \in PassInputs(F1) :
        \A F2 \in TreeFilters : \A in2 \in PassInputs(F2) :
            HiddenThenFilteredIn(S, i, F1, in1, F2, in2)
                => (ShownAfter(S, i, F1, in1, F2, in2) <=> ~exploded[i])

\* Reached: a node revealed by an explosion, and a node of the current
\* layer, are each hidden by one applyFilter and filtered back in by the
\* next.
C37_Witness ==
    /\ \E i \in Nodes :
           /\ exploded[i]
           /\ \E F \in TreeFilters : \E in1, in2 \in PassInputs(F) :
                  HiddenThenFilteredIn(S, i, F, in1, F, in2)
    /\ \E i \in Nodes :
           /\ ~exploded[i]
           /\ \E F \in TreeFilters : \E in1, in2 \in PassInputs(F) :
                  HiddenThenFilteredIn(S, i, F, in1, F, in2)

=============================================================================
